---- MODULE Spec2Model ----
(***************************************************************************)
(* A model of the Kindle highlight extractor of book_highlights:           *)
(* KindleHighlightsExtractor.extract_highlights_from_book and the helpers  *)
(* it calls (src/kindle_highlights.py).                                    *)
(*                                                                         *)
(* Python values are modelled as follows.                                  *)
(*   str             a sequence of one-character strings; a lexeme longer  *)
(*                   than one character stands for that literal text       *)
(*   None (for str)  None, a one-element sequence no str equals            *)
(*   None (objects)  NoneObj, a record no other record equals              *)
(*   list            a sequence                                            *)
(*   dataclass/dict  a record                                              *)
(* The browser is the fetch collaborator: what driver.get loads is chosen  *)
(* by the environment at each fetch, from the finite set Pages.            *)
(***************************************************************************)
EXTENDS Integers, Sequences, FiniteSets, TLC

(***************************************************************************)
(* Bounds of the model.                                                    *)
(***************************************************************************)
\* the most pages one walk fetches
MaxPages == 3
\* the most highlight elements the pages of one walk hold together
MaxElems == 2

(***************************************************************************)
(* Python values.                                                          *)
(***************************************************************************)
None == <<"None">>
NoneObj == [none |-> TRUE]
\* find_element found nothing (selenium raises NoSuchElementException)
NoElem == <<"NoSuchElement">>
\* reading the node raises (a stale element reference)
Stale == <<"StaleElementReference">>
\* the value of a helper that raised instead of returning
Raised == <<"Raised">>

\* bool(v) of a str or None
Truthy(v) == v # None /\ v # <<>>

IsSpace(c) == c \in {" ", "\n", "\t"}
IsDigit(c) == c \in {"0", "1", "2", "3", "4", "5", "6", "7", "8", "9"}
Letters == {"a", "b", "c", "e", "g", "h", "i", "k", "l", "n", "o", "p", "r", "t", "u", "w", "y",
            "B", "L", "P"}
\* the regular expression class \w
IsWordChar(c) == c \in Letters \/ IsDigit(c) \/ c = "_"

RECURSIVE lstrip(_)
lstrip(s) == IF s # <<>> /\ IsSpace(Head(s)) THEN lstrip(Tail(s)) ELSE s

RECURSIVE rstrip(_)
rstrip(s) == IF s # <<>> /\ IsSpace(s[Len(s)]) THEN rstrip(SubSeq(s, 1, Len(s) - 1)) ELSE s

\* str.strip()
strip(s) == rstrip(lstrip(s))

\* hash(text): a function of the text alone (CPython salts it per process),
\* which two different texts may share
hash(text) == Len(text)

(***************************************************************************)
(* models.py                                                               *)
(***************************************************************************)
Book(id, title, author, asin) ==
    [id |-> id, title |-> title, author |-> author, asin |-> asin,
     url |-> None, image_url |-> None, last_annotated_date |-> None]

Highlight(id, text, location, page, note, color) ==
    [id |-> id, text |-> text, location |-> location, page |-> page,
     note |-> note, color |-> color, created_date |-> None]

(***************************************************************************)
(* Constants and pure helpers of kindle_highlights.py                      *)
(***************************************************************************)
AMAZON_NOTEBOOK_URL == <<"https://read.amazon.com/notebook">>

\* the class name the color pattern looks for, as one lexeme
KpNotebookHighlight == "kp-notebook-highlight"

\* \w+ at the head of s: the longest run of word characters.  The lexeme
\* KpNotebookHighlight starts with the word characters "kp" followed by "-".
RECURSIVE WordRun(_)
WordRun(s) ==
    IF s = <<>> THEN <<>>
    ELSE IF Head(s) = KpNotebookHighlight THEN <<"k", "p">>
    ELSE IF IsWordChar(Head(s)) THEN <<Head(s)>> \o WordRun(Tail(s))
    ELSE <<>>

\* re.search(r'kp-notebook-highlight-(\w+)', s): the group of the leftmost match
RECURSIVE SearchColor(_)
SearchColor(s) ==
    IF Len(s) < 3 THEN None
    ELSE IF s[1] = KpNotebookHighlight /\ s[2] = "-" /\ WordRun(SubSeq(s, 3, Len(s))) # <<>>
         THEN WordRun(SubSeq(s, 3, Len(s)))
         ELSE SearchColor(Tail(s))

map_text_to_color(highlight_classes) ==
    SearchColor(IF Truthy(highlight_classes) THEN highlight_classes ELSE <<>>)

\* the markup lexemes of a note
BrTags == {"<br>", "<br/>", "<br />"}
Tags == BrTags \cup {"<b>", "</b>", "<span class=\"x\">", "</span>"}

\* re.sub(r'<br\s*/?>', '\n', html)
RECURSIVE SubBr(_)
SubBr(html) ==
    IF html = <<>> THEN <<>>
    ELSE <<IF Head(html) \in BrTags THEN "\n" ELSE Head(html)>> \o SubBr(Tail(html))

\* re.sub(r'<[^>]+>', '', html)
RECURSIVE SubTags(_)
SubTags(html) ==
    IF html = <<>> THEN <<>>
    ELSE (IF Head(html) \in Tags THEN <<>> ELSE <<Head(html)>>) \o SubTags(Tail(html))

br2ln(html) ==
    IF ~Truthy(html) THEN None ELSE strip(SubTags(SubBr(html)))

\* re.search(r'\d+$', s): $ matches at the end and before a final newline
RECURSIVE TrailingDigits(_)
TrailingDigits(s) ==
    IF s # <<>> /\ IsDigit(s[Len(s)])
    THEN TrailingDigits(SubSeq(s, 1, Len(s) - 1)) \o <<s[Len(s)]>>
    ELSE <<>>

SearchTrailingDigits(s) ==
    LET t == IF s # <<>> /\ s[Len(s)] = "\n" /\ TrailingDigits(s) = <<>>
             THEN SubSeq(s, 1, Len(s) - 1) ELSE s
    IN  IF TrailingDigits(t) = <<>> THEN None ELSE TrailingDigits(t)

\* highlights_url sending the token without the contentLimitState read with it
highlights_url_DropsLimitState(b, state) ==
    [base |-> AMAZON_NOTEBOOK_URL, asin |-> b.asin, contentLimitState |-> <<>>,
     token |-> IF state # NoneObj THEN state.token ELSE <<>>]

highlights_url(b, state) ==
    LET content_limit_state == IF state # NoneObj THEN state.contentLimitState ELSE <<>>
        token == IF state # NoneObj THEN state.token ELSE <<>>
    IN  [base |-> AMAZON_NOTEBOOK_URL, asin |-> b.asin,
         contentLimitState |-> content_limit_state, token |-> token]

\* parse_next_page_state without its "if token" test
parse_next_page_state_NoTokenTest(page) ==
    IF page.stateElem = NoElem \/ page.tokenElem = NoElem
    THEN NoneObj
    ELSE [contentLimitState |-> page.stateElem, token |-> page.tokenElem]

\* page: what the driver currently shows
parse_next_page_state(page) ==
    IF page.stateElem = NoElem \/ page.tokenElem = NoElem
    THEN NoneObj                                   \* find_element raised
    ELSE IF Truthy(page.tokenElem)
         THEN [contentLimitState |-> page.stateElem, token |-> page.tokenElem]
         ELSE NoneObj

\* _validate_extraction_prerequisites without its test of book.asin
_validate_extraction_prerequisites_NoAsinTest(logged_in, b) ==
    IF ~logged_in THEN FALSE ELSE TRUE

_validate_extraction_prerequisites(logged_in, b) ==
    IF ~logged_in THEN FALSE
    ELSE IF ~Truthy(b.asin) THEN FALSE
    ELSE TRUE

(***************************************************************************)
(* The field extractors.  A highlight element of the page is a record of   *)
(* what its selectors find:                                                *)
(*   text       the element's visible text, or Stale                       *)
(*   highlight  the text of its #highlight node, or NoElem                 *)
(*   marker     the class attribute of its .kp-notebook-highlight node     *)
(*   location   the value of its #kp-annotation-location node              *)
(*   header     the text of its #annotationNoteHeader node                 *)
(*   note       the innerHTML of its #note node                            *)
(***************************************************************************)
_extract_highlight_text(el) ==
    IF el.highlight # NoElem THEN strip(el.highlight)
    ELSE IF el.text = Stale THEN Raised
    ELSE strip(el.text)

_extract_highlight_color(el) ==
    IF el.marker = NoElem THEN None ELSE map_text_to_color(el.marker)

_extract_highlight_location(el) ==
    IF el.location = NoElem THEN None ELSE el.location

_extract_highlight_page(el) ==
    IF el.header = NoElem THEN None ELSE SearchTrailingDigits(el.header)

\* a note extractor that returns '' for a row without #note node
_extract_highlight_note_EmptyForMissing(el) ==
    IF el.note = NoElem THEN <<>> ELSE br2ln(el.note)

_extract_highlight_note(el) ==
    IF el.note = NoElem THEN None ELSE br2ln(el.note)

\* an id made of the catalog id and the hash of the text alone
_extract_highlight_data_NoPosition(el, index, b, page_no) ==
    LET text == _extract_highlight_text(el)
    IN  IF text = Raised THEN NoneObj
        ELSE IF ~Truthy(text) THEN NoneObj
        ELSE Highlight([asin |-> b.asin, index |-> 0, page_count |-> 0,
                        hash |-> hash(text)],
                       text,
                       _extract_highlight_location(el),
                       _extract_highlight_page(el),
                       _extract_highlight_note(el),
                       _extract_highlight_color(el))

\* index counts from 0 (enumerate)
_extract_highlight_data(el, index, b, page_no) ==
    LET text == _extract_highlight_text(el)
    IN  IF text = Raised THEN NoneObj
        ELSE IF ~Truthy(text) THEN NoneObj
        ELSE Highlight([asin |-> b.asin, index |-> index, page_count |-> page_no,
                        hash |-> hash(text)],
                       text,
                       _extract_highlight_location(el),
                       _extract_highlight_page(el),
                       _extract_highlight_note(el),
                       _extract_highlight_color(el))

\* the list comprehension of _extract_highlights_from_page
PageHighlights(elems, b, page_no) ==
    [i \in 1..Len(elems) |-> _extract_highlight_data(elems[i], i - 1, b, page_no)]

\* the return [] of a call whose prerequisites fail
PrereqFailureResult == <<>>

\* return [h for h in highlights if h.text]: h.text of None raises AttributeError
ReturnRaises(hl) == \E i \in 1..Len(hl) : hl[i] = NoneObj

HasText(h) == Truthy(h.text)

ReturnValue(hl) == SelectSeq(hl, HasText)

(***************************************************************************)
(* The document: helpers/markdown_helper.py writes it, the two parsers     *)
(* read it back.  A document is a str; each literal text of the serializer *)
(* is one lexeme, a line end is the lexeme "\n", and the text of a field   *)
(* is made of one-character strings (and of lexemes, when a field repeats  *)
(* a label).  The three emoji of the headings are written U+<code point>.  *)
(***************************************************************************)
NL == "\n"
H1 == "# "
AuthorLabel == "**Author:** "
AsinLabel == "**ASIN:** "
Rule == "---"
SummaryHeading == "## U+1F4DD AI-Generated Summary"
SummaryLabel == "**One-Sentence Summary:** "
KeyPointsLabel == "**Key Points:**"
\* the heading save_comprehensive_markdown writes and the GUI parser looks for
FlashcardsHeading == "## U+1F3AF Flashcards"
\* the heading create_anki_flashcards.py looks for: the UTF-8 bytes of
\* U+1F3AF read as Mac Roman, four other characters
FlashcardsHeadingMacRoman == "## U+F8FF U+00FC U+00E9 U+00D8 Flashcards"
FlashcardsIntro == "*Test your understanding of the key concepts*"
QLabel == "**Q"
ALabel == "**A"
LabelEnd == ":** "
HighlightsHeading == "## U+1F4D6 Highlights ("
TotalSuffix == " total)"
HighlightHeading == "### Highlight "
NoteLabel == "**Note:** "
CompleteSuffix == "-complete.md"

\* the lexemes whose text starts with ## (the regular expressions' \n##)
StartsWithHashes(c) ==
    c \in {SummaryHeading, FlashcardsHeading, FlashcardsHeadingMacRoman,
           HighlightsHeading, HighlightHeading}

DigitChars == <<"0", "1", "2", "3", "4", "5", "6", "7", "8", "9">>

\* str(n) of a natural number
RECURSIVE str(_)
str(n) == IF n < 10 THEN <<DigitChars[n + 1]>>
          ELSE str(n \div 10) \o <<DigitChars[(n % 10) + 1]>>

\* a dict of the summarizer: keys is the set of keys it has
Payload(keys, summary, key_points, flashcards) ==
    [keys |-> keys, summary |-> summary, key_points |-> key_points,
     flashcards |-> flashcards]

Flashcard(question, answer) == [question |-> question, answer |-> answer]

\* bool(summary_data) of a dict or None
DictTruthy(sd) == sd # NoneObj /\ sd.keys # {}

\* re.sub(r'[^\w\s-]', '', title)
RECURSIVE KeepSafe(_)
KeepSafe(s) ==
    IF s = <<>> THEN <<>>
    ELSE (IF IsWordChar(Head(s)) \/ IsSpace(Head(s)) \/ Head(s) = "-"
          THEN <<Head(s)>> ELSE <<>>) \o KeepSafe(Tail(s))

IsDashOrSpace(c) == IsSpace(c) \/ c = "-"

\* re.sub(r'[-\s]+', '-', s)
RECURSIVE Hyphenate(_)
Hyphenate(s) ==
    IF s = <<>> THEN <<>>
    ELSE IF IsDashOrSpace(Head(s))
         THEN IF Len(s) > 1 /\ IsDashOrSpace(s[2]) THEN Hyphenate(Tail(s))
              ELSE <<"-">> \o Hyphenate(Tail(s))
         ELSE <<Head(s)>> \o Hyphenate(Tail(s))

\* lines 10-12 of save_comprehensive_markdown, and _sanitize_filename
safe_title(title) == Hyphenate(strip(KeepSafe(title)))

filename(title) == safe_title(title) \o <<CompleteSuffix>>

\* ', '.join(parts)
RECURSIVE join(_, _)
join(sep, parts) ==
    IF parts = <<>> THEN <<>>
    ELSE IF Len(parts) = 1 THEN parts[1]
    ELSE parts[1] \o sep \o join(sep, Tail(parts))

\* what f.write gets for the key points i.. of the list
RECURSIVE KeyPointLines(_, _)
KeyPointLines(points, i) ==
    IF i > Len(points) THEN <<>>
    ELSE str(i) \o <<".", " ">> \o points[i] \o <<NL>> \o KeyPointLines(points, i + 1)

RECURSIVE FlashcardLines(_, _)
FlashcardLines(cards, i) ==
    IF i > Len(cards) THEN <<>>
    ELSE <<QLabel>> \o str(i) \o <<LabelEnd>> \o cards[i].question \o <<NL, NL>>
         \o <<ALabel>> \o str(i) \o <<LabelEnd>> \o cards[i].answer \o <<NL, NL>>
         \o <<Rule, NL, NL>>
         \o FlashcardLines(cards, i + 1)

\* lines 16-20: the header
HeaderBlock(b) ==
    <<H1>> \o b.title \o <<NL, NL>>
    \o <<AuthorLabel>> \o b.author \o <<NL, NL>>
    \o (IF Truthy(b.asin) THEN <<AsinLabel>> \o b.asin \o <<NL, NL>> ELSE <<>>)
    \o <<Rule, NL, NL>>

\* lines 22-37: what is written of the summary, and whether a KeyError of
\* summary_data['summary'] or summary_data['key_points'] ended the writing
SummaryBlock(sd) ==
    IF ~DictTruthy(sd) THEN [text |-> <<>>, raised |-> FALSE]
    ELSE IF "summary" \notin sd.keys
         THEN [text |-> <<SummaryHeading, NL, NL>>, raised |-> TRUE]
    ELSE IF "key_points" \notin sd.keys
         THEN [text |-> <<SummaryHeading, NL, NL>>
                        \o <<SummaryLabel>> \o sd.summary \o <<NL, NL>>
                        \o <<KeyPointsLabel, NL>>,
               raised |-> TRUE]
    ELSE [text |-> <<SummaryHeading, NL, NL>>
                   \o <<SummaryLabel>> \o sd.summary \o <<NL, NL>>
                   \o <<KeyPointsLabel, NL>>
                   \o KeyPointLines(sd.key_points, 1)
                   \o <<NL>>
                   \o (IF "flashcards" \in sd.keys /\ sd.flashcards # <<>>
                       THEN <<FlashcardsHeading, NL, NL, FlashcardsIntro, NL, NL>>
                            \o FlashcardLines(sd.flashcards, 1)
                       ELSE <<>>)
                   \o <<Rule, NL, NL>>,
          raised |-> FALSE]

\* metadata_parts with the page appended before the location
metadata_parts_PageFirst(h) ==
    (IF Truthy(h.page) THEN <<<<"Page: ">> \o h.page>> ELSE <<>>)
    \o (IF Truthy(h.location) THEN <<<<"Location: ">> \o h.location>> ELSE <<>>)
    \o (IF Truthy(h.color) THEN <<<<"Color: ">> \o h.color>> ELSE <<>>)

\* lines 44-50
metadata_parts(h) ==
    (IF Truthy(h.location) THEN <<<<"Location: ">> \o h.location>> ELSE <<>>)
    \o (IF Truthy(h.page) THEN <<<<"Page: ">> \o h.page>> ELSE <<>>)
    \o (IF Truthy(h.color) THEN <<<<"Color: ">> \o h.color>> ELSE <<>>)

\* lines 41-55 for the highlights i.. of the list
RECURSIVE HighlightLines(_, _)
HighlightLines(hl, i) ==
    IF i > Len(hl) THEN <<>>
    ELSE <<HighlightHeading>> \o str(i) \o <<NL, NL>>
         \o hl[i].text \o <<NL, NL>>
         \o (IF metadata_parts(hl[i]) # <<>>
             THEN <<"*">> \o join(<<",", " ">>, metadata_parts(hl[i])) \o <<"*", NL, NL>>
             ELSE <<>>)
         \o (IF Truthy(hl[i].note) THEN <<NoteLabel>> \o hl[i].note \o <<NL, NL>> ELSE <<>>)
         \o <<Rule, NL, NL>>
         \o HighlightLines(hl, i + 1)

\* lines 39-55
HighlightsBlock(hl) ==
    <<HighlightsHeading>> \o str(Len(hl)) \o <<TotalSuffix, NL, NL>> \o HighlightLines(hl, 1)

\* the file save_comprehensive_markdown(book, highlights, summary_data,
\* save_dir) leaves in save_dir: its name and its content.  The exception of
\* a missing key is caught after the file is closed with what was written.
save_comprehensive_markdown(b, hl, sd) ==
    [name |-> filename(b.title),
     content |-> HeaderBlock(b) \o SummaryBlock(sd).text
                 \o (IF SummaryBlock(sd).raised THEN <<>> ELSE HighlightsBlock(hl))]

(***************************************************************************)
(* The parsers: AnkiFlashcardCreator.parse_markdown_file and               *)
(* BookHighlightsApp._parse_markdown_file.  Their regular expressions are  *)
(* written out over the lexemes of a document.                             *)
(***************************************************************************)
\* the content of a file open() or read() raises on
Unreadable == <<"UnicodeDecodeError">>

UnknownBook == <<"Unknown Book">>
UnknownAuthor == <<"Unknown Author">>
NoSummaryAvailable == <<"No summary available">>

\* .+ at position i: the rest of the line
RECURSIVE LineFrom(_, _)
LineFrom(s, i) ==
    IF i > Len(s) \/ s[i] = NL THEN <<>> ELSE <<s[i]>> \o LineFrom(s, i + 1)

\* the places where  label (.+)$  matches, with ^ before label when atLineStart
LabelMatches(s, label, atLineStart) ==
    {i \in 1..Len(s) : /\ s[i] = label
                       /\ atLineStart => (i = 1 \/ s[i - 1] = NL)
                       /\ LineFrom(s, i + 1) # <<>>}

Min(S) == CHOOSE i \in S : \A j \in S : i <= j

\* match.group(1) if match else default, for re.search(label (.+)$, s, re.MULTILINE)
SearchLine(s, label, atLineStart, default) ==
    IF LabelMatches(s, label, atLineStart) = {} THEN default
    ELSE LineFrom(s, Min(LabelMatches(s, label, atLineStart)) + 1)

\* the lookahead \n\n at position j
BlankLineAt(s, j) == j + 1 <= Len(s) /\ s[j] = NL /\ s[j + 1] = NL

\* the lookahead \n## at position j
HeadingAt(s, j) == j + 1 <= Len(s) /\ s[j] = NL /\ StartsWithHashes(s[j + 1])

\* the first place after a run of digits that starts at i
RECURSIVE DigitsEnd(_, _)
DigitsEnd(s, i) == IF i <= Len(s) /\ IsDigit(s[i]) THEN DigitsEnd(s, i + 1) ELSE i

\* the lookahead \n\d+\. at position j
NumberAt(s, j) ==
    /\ j + 1 <= Len(s) /\ s[j] = NL /\ IsDigit(s[j + 1])
    /\ DigitsEnd(s, j + 1) <= Len(s) /\ s[DigitsEnd(s, j + 1)] = "."

\* group 1 of re.search(r'\*\*Key Points:\*\*(.*?)(?=\n\n|\n##|\Z)', s, re.DOTALL)
KeyPointsSection(s) ==
    LET starts == {i \in 1..Len(s) : s[i] = KeyPointsLabel}
        i == Min(starts)
        j == Min({k \in (i + 1)..(Len(s) + 1) :
                     k = Len(s) + 1 \/ BlankLineAt(s, k) \/ HeadingAt(s, k)})
    IN  IF starts = {} THEN None ELSE SubSeq(s, i + 1, j - 1)

\* \d+\. (.+?) can start at p: digits, a full stop, a space and one character
PointAt(t, p) ==
    /\ IsDigit(t[p])
    /\ DigitsEnd(t, p) + 2 <= Len(t)
    /\ t[DigitsEnd(t, p)] = "."
    /\ t[DigitsEnd(t, p) + 1] = " "

\* re.findall(r'\d+\. (.+?)(?=\n\d+\.|\n\n|\Z)', t, re.DOTALL)
RECURSIVE FindPoints(_)
FindPoints(t) ==
    LET starts == {p \in 1..Len(t) : PointAt(t, p)}
        c == DigitsEnd(t, Min(starts)) + 2
        q == Min({k \in (c + 1)..(Len(t) + 1) :
                     k = Len(t) + 1 \/ NumberAt(t, k) \/ BlankLineAt(t, k)})
    IN  IF starts = {} THEN <<>>
        ELSE <<SubSeq(t, c, q - 1)>> \o FindPoints(SubSeq(t, q, Len(t)))

\* [point.strip() for point in points if point.strip()]
RECURSIVE StripKeep(_)
StripKeep(points) ==
    IF points = <<>> THEN <<>>
    ELSE (IF strip(Head(points)) # <<>> THEN <<strip(Head(points))>> ELSE <<>>)
         \o StripKeep(Tail(points))

\* group 1 of re.search(heading + r'(.*?)(?=\n##|\Z)', s, re.DOTALL)
FlashcardsSection(s, heading) ==
    LET starts == {i \in 1..Len(s) : s[i] = heading}
        i == Min(starts)
        j == Min({k \in (i + 1)..(Len(s) + 1) : k = Len(s) + 1 \/ HeadingAt(s, k)})
    IN  IF starts = {} THEN None ELSE SubSeq(s, i + 1, j - 1)

\* \*\*Q(\d+):\*\*  matches at p
QuestionAt(t, p) ==
    /\ t[p] = QLabel
    /\ p + 1 <= Len(t) /\ IsDigit(t[p + 1])
    /\ DigitsEnd(t, p + 1) <= Len(t) /\ t[DigitsEnd(t, p + 1)] = LabelEnd

\* \n\n\*\*A\1:\*\* (.+?)  can start at q, \1 being digits
AnswerAt(t, q, digits) ==
    /\ q + 3 + Len(digits) + 1 <= Len(t)
    /\ t[q] = NL /\ t[q + 1] = NL /\ t[q + 2] = ALabel
    /\ SubSeq(t, q + 3, q + 2 + Len(digits)) = digits
    /\ t[q + 3 + Len(digits)] = LabelEnd

\* the lookaheads \n\n--- and \n\n\*\*Q at position r
PairEndAt(t, r) == r + 2 <= Len(t) /\ t[r] = NL /\ t[r + 1] = NL /\ t[r + 2] \in {Rule, QLabel}

\* where the question that starts at p ends, for a whole match
QuestionEnds(t, p) ==
    LET e == DigitsEnd(t, p + 1)
    IN  {q \in (e + 2)..Len(t) : AnswerAt(t, q, SubSeq(t, p + 1, e - 1))}

\* re.findall(r'\*\*Q(\d+):\*\* (.+?)\n\n\*\*A\1:\*\* (.+?)(?=\n\n---|\n\n\*\*Q|\Z)',
\*            t, re.DOTALL), with the strip() of both groups
RECURSIVE FindPairs(_)
FindPairs(t) ==
    LET starts == {p \in 1..Len(t) : QuestionAt(t, p) /\ QuestionEnds(t, p) # {}}
        p == Min(starts)
        e == DigitsEnd(t, p + 1)
        q == Min(QuestionEnds(t, p))
        a == q + 3 + (e - p - 1) + 1
        r == Min({k \in (a + 1)..(Len(t) + 1) : k = Len(t) + 1 \/ PairEndAt(t, k)})
    IN  IF starts = {} THEN <<>>
        ELSE <<Flashcard(strip(SubSeq(t, e + 1, q - 1)), strip(SubSeq(t, a, r - 1)))>>
             \o FindPairs(SubSeq(t, r, Len(t)))

\* a parser that gives up on a document without title line
ParseDocument_NoTitleGuard(file_path, content, heading) ==
    IF content = Unreadable \/ LabelMatches(content, H1, TRUE) = {} THEN NoneObj
    ELSE [book_title |-> SearchLine(content, H1, TRUE, UnknownBook),
          author |-> SearchLine(content, AuthorLabel, FALSE, UnknownAuthor),
          asin |-> SearchLine(content, AsinLabel, FALSE, None),
          summary |-> SearchLine(content, SummaryLabel, FALSE, NoSummaryAvailable),
          key_points |-> IF KeyPointsSection(content) = None THEN <<>>
                         ELSE StripKeep(FindPoints(KeyPointsSection(content))),
          flashcards |-> IF FlashcardsSection(content, heading) = None THEN <<>>
                         ELSE FindPairs(FlashcardsSection(content, heading)),
          file_path |-> file_path]

\* the body both parsers share; heading is the flashcards heading of each
ParseDocument(file_path, content, heading) ==
    IF content = Unreadable THEN NoneObj
    ELSE [book_title |-> SearchLine(content, H1, TRUE, UnknownBook),
          author |-> SearchLine(content, AuthorLabel, FALSE, UnknownAuthor),
          asin |-> SearchLine(content, AsinLabel, FALSE, None),
          summary |-> SearchLine(content, SummaryLabel, FALSE, NoSummaryAvailable),
          key_points |-> IF KeyPointsSection(content) = None THEN <<>>
                         ELSE StripKeep(FindPoints(KeyPointsSection(content))),
          flashcards |-> IF FlashcardsSection(content, heading) = None THEN <<>>
                         ELSE FindPairs(FlashcardsSection(content, heading)),
          file_path |-> file_path]

\* AnkiFlashcardCreator.parse_markdown_file
parse_markdown_file(file_path, content) ==
    ParseDocument(file_path, content, FlashcardsHeadingMacRoman)

\* BookHighlightsApp._parse_markdown_file
_parse_markdown_file(file_path, content) ==
    ParseDocument(file_path, content, FlashcardsHeading)

(***************************************************************************)
(* The inputs: books, highlight elements and pages.                        *)
(***************************************************************************)
B1 == <<"B", "1">>
B2 == <<"B", "2">>
BookOne == Book(B1, <<"a">>, <<"u">>, B1)
BookTwo == Book(B2, <<"b">>, <<"u">>, B2)
\* _extract_book_data: a book element without id gets id book_<index>, asin None
BookNoAsin == Book(<<"b", "o", "o", "k", "_", "0">>, <<"c">>, <<"u">>, None)
Books == {BookOne, BookTwo, BookNoAsin}

\* a highlight with every field
FullElement ==
    [text |-> <<"a", " ", "n">>, highlight |-> <<" ", "a">>,
     marker |-> <<KpNotebookHighlight, " ", KpNotebookHighlight, "-", "b", "l", "u", "e">>,
     location |-> <<"L", "1">>, header |-> <<"P", " ", "1", "2">>,
     note |-> <<"n", "<br>", "<b>", "o", "</b>">>]
\* a row without a #highlight node and without any optional field: its text
\* is the row's visible text
BareElement ==
    [text |-> <<"n", " ">>, highlight |-> NoElem, marker |-> NoElem,
     location |-> NoElem, header |-> NoElem, note |-> NoElem]
\* a row whose #highlight node holds only white space
BlankElement ==
    [text |-> <<"n">>, highlight |-> <<" ">>, marker |-> NoElem,
     location |-> NoElem, header |-> NoElem, note |-> NoElem]
\* a row that went stale: every read of it raises
StaleElement ==
    [text |-> Stale, highlight |-> NoElem, marker |-> NoElem,
     location |-> NoElem, header |-> NoElem, note |-> NoElem]
\* a row whose marker carries a class kp-notebook-highlight-green
GreenElement ==
    [text |-> <<"g">>, highlight |-> <<"g">>,
     marker |-> <<KpNotebookHighlight, "-", "g", "r", "e", "e", "n">>,
     location |-> NoElem, header |-> NoElem, note |-> NoElem]
Elements == {FullElement, BareElement, BlankElement, StaleElement, GreenElement}

SeqsUpTo(S, n) == UNION {[1..k -> S] : k \in 0..n}

C1Val == <<"c", "1">>
C2Val == <<"c", "2">>
T1Val == <<"t", "1">>
T2Val == <<"t", "2">>
\* <<value of .kp-notebook-content-limit-state, value of
\*   .kp-notebook-annotations-next-page-start>> of a page
ContinuationFields ==
    {<<C1Val, T1Val>>, <<C2Val, T2Val>>, <<C1Val, <<>>>>,
     <<NoElem, T1Val>>, <<C1Val, NoElem>>}

MakePage(elems, cont) == [elems |-> elems, stateElem |-> cont[1], tokenElem |-> cont[2]]

\* the pages a fetch can load when the walk has room for n more elements
PagesUpTo(n) == {MakePage(e, c) : e \in SeqsUpTo(Elements, n), c \in ContinuationFields}

\* the notebook landing page the browser shows after launch_amazon_notebook
NotebookPage == [elems |-> <<>>, stateElem |-> NoElem, tokenElem |-> NoElem]

NoUrl == [base |-> <<>>, asin |-> <<>>, contentLimitState |-> <<>>, token |-> <<>>]

(***************************************************************************)
(* The inputs of the serializer and of the parsers.                        *)
(***************************************************************************)
\* the most key points of a payload
MaxPoints == 2
\* the most flashcards of a payload
MaxCards == 2

AllKeys == {"summary", "key_points", "flashcards"}
SummaryText == <<"s", " ", "x", ".">>
Points(n) == [i \in 1..n |-> <<"p", " ">> \o str(i)]
Cards(n) == [i \in 1..n |-> Flashcard(<<"q">> \o str(i) \o <<"?">>, <<"a">> \o str(i) \o <<"!">>)]

\* what _parse_summary_response returns: summary and key points not empty,
\* with no flashcard or with the most
GeneratedPayloads ==
    {Payload(AllKeys, SummaryText, Points(k), Cards(c)) : k \in 1..MaxPoints, c \in {0, MaxCards}}
\* a generated payload whose summary sentence repeats a label of the document
LabelPayload == Payload(AllKeys, <<"s", " ", KeyPointsLabel, " ", "x">>, Points(2), Cards(1))
\* dicts a caller can build that lack a key, or hold an empty summary or list
NoFlashcardsKey == Payload({"summary", "key_points"}, SummaryText, Points(1), <<>>)
NoKeyPointsKey == Payload({"summary", "flashcards"}, SummaryText, <<>>, Cards(1))
NoSummaryKey == Payload({"key_points", "flashcards"}, <<>>, Points(1), <<>>)
EmptyKeyPoints == Payload(AllKeys, SummaryText, <<>>, <<>>)
EmptySummary == Payload(AllKeys, <<>>, Points(1), <<>>)
EmptyDict == Payload({}, <<>>, <<>>, <<>>)
BasePayload == Payload(AllKeys, SummaryText, Points(1), Cards(1))
Payloads ==
    {NoneObj, EmptyDict, BasePayload, LabelPayload, NoFlashcardsKey, NoKeyPointsKey,
     NoSummaryKey, EmptyKeyPoints, EmptySummary} \cup GeneratedPayloads

\* books as _extract_book_data makes them: title and author are stripped
\* texts, either may be empty; the titles hold no lexeme
DocBook == Book(B1, <<"a", " ", "b">>, <<"u", " ", "v">>, B1)
\* a second title with the file name of the first, of a book without id
SameSlugBook == Book(<<"b", "o", "o", "k", "_", "0">>, <<"a", "-", "b", "!">>, <<"u">>, None)
\* a book whose title element has no text
UntitledBook == Book(<<"b", "o", "o", "k", "_", "1">>, <<>>, <<"u">>, None)
DocBooks == {DocBook, SameSlugBook, UntitledBook}

\* highlights as _extract_highlight_data makes them
DocHighlight(location, page, color, note) ==
    Highlight([asin |-> B1, index |-> 0, page_count |-> 1, hash |-> 1],
              <<"t">>, location, page, note, color)
Locations == {None, <<"L", "1">>}
PageLabels == {None, <<"1", "2">>}
Colors == {None, <<"b", "l", "u", "e">>}
Notes == {None, <<"n", NL, "o">>}
\* every choice of fields present, and a location and a note that are ''
DocHighlights ==
    {DocHighlight(l, p, c, n) : l \in Locations, p \in PageLabels, c \in Colors, n \in Notes}
    \cup {DocHighlight(<<>>, <<"1", "2">>, None, None),
          DocHighlight(None, None, <<"b", "l", "u", "e">>, <<>>)}
BaseHighlights ==
    <<DocHighlight(<<"L", "1">>, <<"1", "2">>, <<"b", "l", "u", "e">>, <<"n", NL, "o">>),
      DocHighlight(None, None, None, None)>>
\* a highlight whose note quotes a label of the document
LabelHighlight == DocHighlight(None, None, None, <<SummaryLabel, "z">>)
HighlightLists == {<<>>, BaseHighlights, <<LabelHighlight>>} \cup {<<h>> : h \in DocHighlights}

SaveInput(b, hl, sd) == [kind |-> "save", book |-> b, highlights |-> hl, payload |-> sd]

\* the calls of save_comprehensive_markdown the model makes
SaveInputs ==
    {SaveInput(DocBook, BaseHighlights, sd) : sd \in Payloads}
    \cup {SaveInput(DocBook, hl, NoneObj) : hl \in HighlightLists}
    \cup {SaveInput(SameSlugBook, BaseHighlights, sd) : sd \in {NoneObj, BasePayload}}
    \cup {SaveInput(UntitledBook, BaseHighlights, BasePayload)}

\* a document somebody else put in the save directory: a header and a
\* flashcards block under heading, whose blocks are questions numbered n with
\* or without (answer None) their answer;
\* the number of a question without answer may come again
HandInput(heading, blocks) == [kind |-> "hand", heading |-> heading, blocks |-> blocks]
HandBlock(n, question, answer) == [n |-> n, question |-> question, answer |-> answer]

RECURSIVE HandBlockLines(_)
HandBlockLines(blocks) ==
    IF blocks = <<>> THEN <<>>
    ELSE <<QLabel>> \o str(Head(blocks).n) \o <<LabelEnd>> \o Head(blocks).question \o <<NL, NL>>
         \o (IF Head(blocks).answer = None THEN <<>>
             ELSE <<ALabel>> \o str(Head(blocks).n) \o <<LabelEnd>> \o Head(blocks).answer
                  \o <<NL, NL>>)
         \o <<Rule, NL, NL>>
         \o HandBlockLines(Tail(blocks))

HandContent(d) ==
    IF d.kind = "unreadable" THEN Unreadable
    ELSE IF d.kind = "empty" THEN <<>>
    ELSE HeaderBlock(DocBook)
         \o <<d.heading, NL, NL, FlashcardsIntro, NL, NL>>
         \o HandBlockLines(d.blocks)
         \o <<Rule, NL, NL>>
         \o HighlightsBlock(<<>>)

Q1 == HandBlock(1, <<"q", "1">>, <<"a", "1">>)
Q1Only == HandBlock(1, <<"q", "1">>, None)
Q2 == HandBlock(2, <<"q", "2">>, <<"a", "2">>)
Q2Only == HandBlock(2, <<"q", "2">>, None)
Q3 == HandBlock(3, <<"q", "3">>, <<"a", "3">>)
Q3Only == HandBlock(3, <<"q", "3">>, None)
HandInputs ==
    {HandInput(h, b) : h \in {FlashcardsHeading, FlashcardsHeadingMacRoman},
                       b \in {<<Q1, Q2Only, Q3>>, <<Q1Only, Q2>>, <<Q1, Q2, Q3Only>>,
                              <<Q1Only, Q1>>}}
    \cup {[kind |-> "unreadable"], [kind |-> "empty"]}

\* a file of the save directory that no title of the model names
ForeignName == <<"n", "o", "t", "e", "s", CompleteSuffix>>
FileNames == {filename(b.title) : b \in DocBooks \cup Books} \cup {ForeignName}

(***************************************************************************)
(* The summarizer: LLMSummarizer._parse_summary_response.  A response is   *)
(* the list of its lines (response.strip().split('\n')); a line is a str   *)
(* in which each label of the response format is one lexeme.               *)
(***************************************************************************)
SummaryTag == "SUMMARY:"
KeyPointsTag == "KEY POINTS:"
FlashcardsTag == "FLASHCARDS:"
QTag == "Q:"
ATag == "A:"

\* line.startswith(x)
startswith(line, x) == line # <<>> /\ line[1] = x

\* line.replace(x, ''): every occurrence of x goes
RECURSIVE replace(_, _)
replace(line, x) ==
    IF line = <<>> THEN <<>>
    ELSE (IF Head(line) = x THEN <<>> ELSE <<Head(line)>>) \o replace(Tail(line), x)

\* the locals of _parse_summary_response before the loop
InitialScan ==
    [summary |-> <<>>, key_points |-> <<>>, flashcards |-> <<>>,
     in_key_points |-> FALSE, in_flashcards |-> FALSE, current_question |-> None]

\* the loop body that keeps the question after its answer
ScanStep_KeepsQuestion(st, raw) ==
    LET line == strip(raw)
    IN  IF startswith(line, SummaryTag)
        THEN [st EXCEPT !.summary = strip(replace(line, SummaryTag))]
        ELSE IF startswith(line, KeyPointsTag)
        THEN [st EXCEPT !.in_key_points = TRUE, !.in_flashcards = FALSE]
        ELSE IF startswith(line, FlashcardsTag)
        THEN [st EXCEPT !.in_key_points = FALSE, !.in_flashcards = TRUE]
        ELSE IF st.in_key_points /\ startswith(line, "-")
        THEN IF strip(replace(line, "-")) # <<>>
             THEN [st EXCEPT !.key_points = Append(@, strip(replace(line, "-")))]
             ELSE st
        ELSE IF st.in_flashcards /\ startswith(line, QTag)
        THEN [st EXCEPT !.current_question = strip(replace(line, QTag))]
        ELSE IF st.in_flashcards /\ startswith(line, ATag) /\ Truthy(st.current_question)
        THEN [st EXCEPT !.flashcards = Append(@, Flashcard(st.current_question,
                                                           strip(replace(line, ATag))))]
        ELSE st

\* the body of  for line in lines  (lines 165-187)
ScanStep(st, raw) ==
    LET line == strip(raw)
    IN  IF startswith(line, SummaryTag)
        THEN [st EXCEPT !.summary = strip(replace(line, SummaryTag))]
        ELSE IF startswith(line, KeyPointsTag)
        THEN [st EXCEPT !.in_key_points = TRUE, !.in_flashcards = FALSE]
        ELSE IF startswith(line, FlashcardsTag)
        THEN [st EXCEPT !.in_key_points = FALSE, !.in_flashcards = TRUE]
        ELSE IF st.in_key_points /\ startswith(line, "-")
        THEN IF strip(replace(line, "-")) # <<>>
             THEN [st EXCEPT !.key_points = Append(@, strip(replace(line, "-")))]
             ELSE st
        ELSE IF st.in_flashcards /\ startswith(line, QTag)
        THEN [st EXCEPT !.current_question = strip(replace(line, QTag))]
        ELSE IF st.in_flashcards /\ startswith(line, ATag) /\ Truthy(st.current_question)
        THEN [st EXCEPT !.flashcards = Append(@, Flashcard(st.current_question,
                                                           strip(replace(line, ATag)))),
                        !.current_question = None]
        ELSE st

\* the return that asks for a summary only
ReturnPayload_SummaryOnly(st) ==
    IF st.summary # <<>>
    THEN Payload({"summary", "key_points", "flashcards"}, st.summary, st.key_points,
                 st.flashcards)
    ELSE NoneObj

\* lines 189-198: the dict, or None
ReturnPayload(st) ==
    IF st.summary # <<>> /\ st.key_points # <<>>
    THEN Payload({"summary", "key_points", "flashcards"}, st.summary, st.key_points,
                 st.flashcards)
    ELSE NoneObj

\* the locals after the lines i.. are scanned
RECURSIVE ScanFrom(_, _, _)
ScanFrom(st, lines, i) ==
    IF i > Len(lines) THEN st ELSE ScanFrom(ScanStep(st, lines[i]), lines, i + 1)

_parse_summary_response(lines) == ReturnPayload(ScanFrom(InitialScan, lines, 1))

\* LLMSummarizer.summarize_highlights: client is whether self.client is
\* set, response the lines the generation service answers with, None when
\* the request fails
summarize_highlights(client, highlights, response) ==
    IF ~client \/ highlights = <<>> \/ response = None THEN NoneObj
    ELSE _parse_summary_response(response)

\* summarize_highlights asking again after a response it cannot use
RequestsSent_Retry(client, highlights, response) ==
    IF ~client \/ highlights = <<>> THEN 0
    ELSE IF summarize_highlights(client, highlights, response) = NoneObj THEN 2
    ELSE 1

\* the calls of client.chat.completions.create in one call of
\* summarize_highlights: the one of _generate_summary (line 64)
RequestsSent(client, highlights, response) ==
    IF ~client \/ highlights = <<>> THEN 0 ELSE 1

(***************************************************************************)
(* The inputs of the summarizer: responses of the generation service.      *)
(***************************************************************************)
\* the most question and answer lines of a response
MaxQALines == 3

SummaryLine == <<SummaryTag, " ", "s">>
\* a summary sentence that repeats its label
SummaryLineTwice == <<SummaryTag, " ", "s", " ", SummaryTag, " ", "t">>
KeyPointLine == <<"-", " ", "p">>
\* a key point with a hyphen in its text, on an indented line
HyphenLine == <<" ", "-", " ", "p", "-", "q">>
QLine1 == <<QTag, " ", "q", "1">>
QLine2 == <<QTag, " ", "q", "2">>
ALine1 == <<ATag, " ", "a", "1">>
\* an answer that repeats its label
ALineTwice == <<ATag, " ", "a", " ", ATag, " ", "b">>

\* the start of a response: no summary line, one, one without text, or one
\* that a later line without text overrides
SummaryParts ==
    {<<>>, <<SummaryLine>>, <<SummaryLineTwice>>, <<<<SummaryTag>>>>,
     <<SummaryLine, <<SummaryTag>>>>}
\* the key points: none, some, a marker without text, a point outside of
\* the section
KeyPointParts ==
    {<<>>, <<<<KeyPointsTag>>, KeyPointLine>>, <<<<KeyPointsTag>>, KeyPointLine, HyphenLine>>,
     <<<<KeyPointsTag>>, <<"-">>>>, <<KeyPointLine>>}
\* the lines under the flashcards label: questions with and without text,
\* answers, and the two section labels
QALines ==
    {QLine1, QLine2, <<QTag>>, ALine1, ALineTwice, <<KeyPointsTag>>, <<FlashcardsTag>>}
\* the flashcards: up to MaxQALines such lines in any order under the label
FlashcardParts == {<<<<FlashcardsTag>>>> \o qa : qa \in SeqsUpTo(QALines, MaxQALines)}
\* no flashcards, a pair under the label, a pair outside of the section
FewFlashcardParts == {<<>>, <<<<FlashcardsTag>>, QLine1, ALine1>>, <<QLine1, ALine1>>}
\* every start with few flashcards, and every run of flashcard lines after
\* one start
Responses ==
    {s \o k \o f : s \in SummaryParts, k \in KeyPointParts, f \in FewFlashcardParts}
    \cup {<<SummaryLine, <<KeyPointsTag>>, KeyPointLine>> \o f : f \in FlashcardParts}

(***************************************************************************)
(* The inputs of the flashcard batch: the files ticked in the list that    *)
(* _find_markdown_files sorted.                                            *)
(***************************************************************************)
\* the most files ticked for one batch
MaxSelected == 2

\* the names of the save directory as sorted(md_files) orders them
DirectoryOrder ==
    <<filename(UntitledBook.title), filename(DocBook.title), filename(BookOne.title),
      filename(BookTwo.title), filename(BookNoAsin.title), ForeignName>>
Rank(n) == CHOOSE k \in 1..Len(DirectoryOrder) : DirectoryOrder[k] = n

\* selected_files: ticked files, in the order of the list
IsSelection(sel) ==
    /\ sel # <<>>
    /\ \A k \in 1..(Len(sel) - 1) : Rank(sel[k]) < Rank(sel[k + 1])

\* no click on "Create Flashcards" yet
NoBatch == [pc |-> "unstarted", selected |-> <<>>, idx |-> 0, log |-> <<>>]

\* no run of a command-line pipeline yet
NoRun ==
    [pc |-> "unstarted", app |-> "none", driver |-> FALSE, exc |-> "none", path |-> "none",
     at |-> "none",
     cleanups |-> 0, quits |-> 0, closed |-> "none", calls |-> 0, requests |-> 0,
     summary_data |-> FALSE]

\* no call of _parse_summary_response yet
NotScanning ==
    [pc |-> "idle", lines |-> <<>>, i |-> 0, st |-> InitialScan, value |-> NoneObj]

\* the clicks on "Summarize Selected" the model follows
Clicks == {"first", "second"}
\* the books ticked at a click
Selections == {<<BookOne>>, <<BookNoAsin, BookTwo>>}
\* the pages the browser can load for a thread
GuiPages ==
    {MakePage(e, c) : e \in {<<>>, <<BareElement>>}, c \in {<<C1Val, T1Val>>, <<C1Val, <<>>>>}}
    \cup {MakePage(<<BlankElement>>, <<C1Val, <<>>>>)}
\* what the generation service answers: nothing (the request fails), a
\* summary without key points, a response in the format asked for
ServiceResponses ==
    {None, <<SummaryLine>>,
     <<SummaryLine, <<KeyPointsTag>>, KeyPointLine, <<FlashcardsTag>>, QLine1, ALine1>>}

\* a click that did not happen yet
NotStarted ==
    [pc |-> "unstarted", selected |-> <<>>, idx |-> 0, url |-> NoUrl,
     page_count |-> 0, highlights |-> <<>>, calls |-> <<>>]

\* files[n] of a name the directory does not hold
Absent == <<"FileNotFoundError">>
NoOrigin == [kind |-> "none"]
NotParsed == [by |-> "none", file |-> <<>>, value |-> NoneObj]

(***************************************************************************)
(* State.                                                                  *)
(*   is_logged_in, driverPage          the extractor object and its driver *)
(*   book, url, highlights, page_count the locals of the running call      *)
(*   pc                                where the call stands:              *)
(*      "idle"  no call yet; "fetch" at the top of the loop; "next" before *)
(*      parse_next_page_state; "done" the call has ended                   *)
(*   outcome, result                   how the last call ended and what it *)
(*                                     returned                            *)
(*   fetched   history: the requests of this call and what each loaded     *)
(* Left out: what the call prints, and the file debug_page_structure       *)
(* dumps when a page has no highlight rows; both are written and never     *)
(* read back.  A driver.get that raises leaves the driver's page as it was.*)
(***************************************************************************)
VARIABLES is_logged_in, driverPage, book, url, highlights, page_count,
          pc, outcome, result, fetched

(***************************************************************************)
(* The save directory, and the threads of the GUI.                         *)
(*   files    the content of each file of the save directory, or Absent    *)
(*   parsed   the parser that ran last, on which file, and what it         *)
(*            returned; a save or a new file ends it                       *)
(*   origin   history: the call of save_comprehensive_markdown, or the     *)
(*            hand-made document, each file comes from                     *)
(*   threads  the _summarize_books_thread threads started so far, each     *)
(*            with the locals of its loop and of the                       *)
(*            extract_highlights_from_book call it is in                   *)
(* The save directory exists (ensure_save_directory made it).              *)
(***************************************************************************)
VARIABLES files, origin, parsed, threads

(***************************************************************************)
(* The summarizer.                                                         *)
(*   llm   the call of LLMSummarizer._parse_summary_response that runs or  *)
(*         ran last: the lines of the response, the number of lines        *)
(*         scanned, the locals of the loop, and the value returned         *)
(* The flashcard batch of the GUI.                                         *)
(*   batch the thread of "Create Flashcards": the files ticked, how many   *)
(*         of them the loop has taken, and what became of each             *)
(* The command-line pipelines.                                             *)
(*   run   the call of KindleHighlightsExtractor.run or of                 *)
(*         KindleHighlightsWithSummary.run: where it stands, whether a     *)
(*         driver exists, and the calls of _cleanup, driver.quit,          *)
(*         summarize_highlights and the generation service it has made     *)
(***************************************************************************)
VARIABLES llm, batch, run

toolVars == <<llm, batch, run>>

docVars == <<files, origin, parsed>>
guiVars == <<threads>>

walkerVars == <<is_logged_in, driverPage, book, url, highlights, page_count,
                pc, outcome, result, fetched>>

vars == <<walkerVars, docVars, guiVars, toolVars>>

Init ==
    /\ is_logged_in = FALSE
    /\ driverPage = NotebookPage
    /\ book = BookNoAsin
    /\ url = NoUrl
    /\ highlights = <<>>
    /\ page_count = 0
    /\ pc = "idle"
    /\ outcome = "none"
    /\ result = <<>>
    /\ fetched = <<>>
    /\ files = [n \in FileNames |-> Absent]
    /\ origin = [n \in FileNames |-> NoOrigin]
    /\ parsed = NotParsed
    /\ threads = [t \in Clicks |-> NotStarted]
    /\ llm = NotScanning
    /\ batch = NoBatch
    /\ run = NoRun

\* _poll_for_login sees the notebook URL
Login ==
    /\ pc \in {"idle", "done"}
    /\ ~is_logged_in
    /\ is_logged_in' = TRUE
    /\ UNCHANGED <<driverPage, book, url, highlights, page_count, pc, outcome,
                   result, fetched, docVars, guiVars, toolVars>>

\* the end of extract_highlights_from_book with the list hl accumulated
Finish(hl) ==
    /\ pc' = "done"
    /\ outcome' = IF ReturnRaises(hl) THEN "raised" ELSE "returned"
    /\ result' = IF ReturnRaises(hl) THEN <<>> ELSE ReturnValue(hl)

\* extract_highlights_from_book keeping the url of the previous call (as an
\* attribute of the extractor would) instead of building a fresh one
ExtractStart_KeepsUrl(b) ==
    /\ pc \in {"idle", "done"}
    /\ book' = b
    /\ fetched' = <<>>
    /\ IF ~_validate_extraction_prerequisites(is_logged_in, b)
       THEN /\ pc' = "done"
            /\ outcome' = "returned"
            /\ result' = PrereqFailureResult
            /\ url' = NoUrl
            /\ highlights' = <<>>
            /\ page_count' = 0
       ELSE /\ pc' = "fetch"
            /\ outcome' = "none"
            /\ result' = <<>>
            /\ highlights' = <<>>
            /\ url' = IF url = NoUrl THEN highlights_url(b, NoneObj)
                                     ELSE [url EXCEPT !.asin = b.asin]
            /\ page_count' = 0
    /\ UNCHANGED <<is_logged_in, driverPage, docVars, guiVars, toolVars>>

\* extract_highlights_from_book(b) up to the loop
ExtractStart(b) ==
    /\ pc \in {"idle", "done"}
    /\ book' = b
    /\ fetched' = <<>>
    /\ IF ~_validate_extraction_prerequisites(is_logged_in, b)
       THEN /\ pc' = "done"
            /\ outcome' = "returned"
            /\ result' = PrereqFailureResult
            /\ url' = NoUrl
            /\ highlights' = <<>>
            /\ page_count' = 0
       ELSE /\ pc' = "fetch"
            /\ outcome' = "none"
            /\ result' = <<>>
            /\ highlights' = <<>>
            /\ url' = highlights_url(b, NoneObj)
            /\ page_count' = 0
    /\ UNCHANGED <<is_logged_in, driverPage, docVars, guiVars, toolVars>>

\* one loop iteration up to highlights.extend: driver.get(url) loads page
FetchPage(page) ==
    /\ pc = "fetch"
    /\ page_count < MaxPages
    /\ Len(highlights) + Len(page.elems) <= MaxElems
    /\ page_count' = page_count + 1
    /\ driverPage' = page
    /\ highlights' = highlights \o PageHighlights(page.elems, book, page_count + 1)
    /\ fetched' = Append(fetched, [url |-> url, ok |-> TRUE, page |-> page])
    /\ pc' = "next"
    /\ UNCHANGED <<is_logged_in, book, url, outcome, result, docVars, guiVars, toolVars>>

\* one loop iteration in which driver.get(url) raises: page_highlights is None
FetchError ==
    /\ pc = "fetch"
    /\ page_count < MaxPages
    /\ page_count' = page_count + 1
    /\ fetched' = Append(fetched, [url |-> url, ok |-> FALSE, page |-> NotebookPage])
    /\ Finish(highlights)
    /\ UNCHANGED <<is_logged_in, driverPage, book, url, highlights, docVars, guiVars, toolVars>>

\* the rest of the iteration, ending the walk at a page without highlight
\* elements whatever its token
NextPage_StopsAtEmptyPage ==
    /\ pc = "next"
    /\ LET next_page_state == parse_next_page_state(driverPage)
       IN  IF next_page_state # NoneObj /\ driverPage.elems # <<>>
           THEN /\ url' = highlights_url(book, next_page_state)
                /\ pc' = "fetch"
                /\ UNCHANGED <<outcome, result>>
           ELSE /\ Finish(highlights)
                /\ UNCHANGED url
    /\ UNCHANGED <<is_logged_in, driverPage, book, highlights, page_count, fetched,
                   docVars, guiVars, toolVars>>

\* the rest of the iteration: parse_next_page_state and the next url, or break
NextPage ==
    /\ pc = "next"
    /\ LET next_page_state == parse_next_page_state(driverPage)
       IN  IF next_page_state # NoneObj
           THEN /\ url' = highlights_url(book, next_page_state)
                /\ pc' = "fetch"
                /\ UNCHANGED <<outcome, result>>
           ELSE /\ Finish(highlights)
                /\ UNCHANGED url
    /\ UNCHANGED <<is_logged_in, driverPage, book, highlights, page_count, fetched,
                   docVars, guiVars, toolVars>>

Next ==
    \/ Login
    \/ \E b \in Books : ExtractStart(b)
    \/ \E page \in PagesUpTo(MaxElems - Len(highlights)) : FetchPage(page)
    \/ FetchError
    \/ NextPage

Spec == Init /\ [][Next]_vars

(***************************************************************************)
(* The serializer and the parsers at work on the save directory.           *)
(***************************************************************************)
\* save_comprehensive_markdown opening the file with mode 'a'
WriteFile_Appends(b, hl, sd) ==
    LET doc == save_comprehensive_markdown(b, hl, sd)
    IN  /\ files' = [files EXCEPT ![doc.name] =
                        (IF files[doc.name] = Absent THEN <<>> ELSE files[doc.name])
                        \o doc.content]
        /\ origin' = [origin EXCEPT ![doc.name] = SaveInput(b, hl, sd)]
        /\ parsed' = NotParsed

\* save_comprehensive_markdown ending the document with a line that counts
\* the files of the directory (as a date line would, it differs by run)
WriteFile_Stamped(b, hl, sd) ==
    LET doc == save_comprehensive_markdown(b, hl, sd)
    IN  /\ files' = [files EXCEPT ![doc.name] =
                        doc.content \o str(Cardinality({n \in FileNames : files[n] # Absent}))]
        /\ origin' = [origin EXCEPT ![doc.name] = SaveInput(b, hl, sd)]
        /\ parsed' = NotParsed

\* what save_comprehensive_markdown does to the save directory: open(filepath,
\* 'w') empties the file, the writes fill it
WriteFile(b, hl, sd) ==
    LET doc == save_comprehensive_markdown(b, hl, sd)
    IN  /\ files' = [files EXCEPT ![doc.name] = doc.content]
        /\ origin' = [origin EXCEPT ![doc.name] = SaveInput(b, hl, sd)]
        /\ parsed' = NotParsed

\* a call of save_comprehensive_markdown
Save(b, hl, sd) ==
    /\ WriteFile(b, hl, sd)
    /\ UNCHANGED <<walkerVars, guiVars, toolVars>>

\* somebody puts a document of their own in the save directory
PutFile(d) ==
    /\ files' = [files EXCEPT ![ForeignName] = HandContent(d)]
    /\ origin' = [origin EXCEPT ![ForeignName] = d]
    /\ parsed' = NotParsed
    /\ UNCHANGED <<walkerVars, guiVars, toolVars>>

\* AnkiFlashcardCreator.parse_markdown_file on a file of the directory
Parse(n) ==
    /\ files[n] # Absent
    /\ parsed' = [by |-> "cli", file |-> n, value |-> parse_markdown_file(n, files[n])]
    /\ UNCHANGED <<files, origin, walkerVars, guiVars, toolVars>>

\* BookHighlightsApp._parse_markdown_file on a file of the directory
ParseGui(n) ==
    /\ files[n] # Absent
    /\ parsed' = [by |-> "gui", file |-> n, value |-> _parse_markdown_file(n, files[n])]
    /\ UNCHANGED <<files, origin, walkerVars, guiVars, toolVars>>

DocNext ==
    \/ \E x \in SaveInputs : Save(x.book, x.highlights, x.payload)
    \/ \E d \in HandInputs : PutFile(d)
    \/ \E n \in FileNames : Parse(n)
    \/ \E n \in FileNames : ParseGui(n)

DocSpec == Init /\ [][DocNext]_vars

(***************************************************************************)
(* _parse_summary_response at work on a response, a line at a step.        *)
(*   llm.pc   "idle" no call yet, "scan" in the loop, "done" returned      *)
(*   llm.i    the number of lines scanned                                  *)
(***************************************************************************)
ParseStart(response) ==
    /\ llm.pc = "idle"
    /\ llm' = [pc |-> "scan", lines |-> response, i |-> 0, st |-> InitialScan,
               value |-> NoneObj]
    /\ UNCHANGED <<walkerVars, docVars, guiVars, batch, run>>

\* one turn of  for line in lines
ScanLine ==
    /\ llm.pc = "scan"
    /\ llm.i < Len(llm.lines)
    /\ llm' = [llm EXCEPT !.i = @ + 1, !.st = ScanStep(@, llm.lines[llm.i + 1])]
    /\ UNCHANGED <<walkerVars, docVars, guiVars, batch, run>>

\* the end of the loop and the return
ParseReturn ==
    /\ llm.pc = "scan"
    /\ llm.i = Len(llm.lines)
    /\ llm' = [llm EXCEPT !.pc = "done", !.value = ReturnPayload(llm.st)]
    /\ UNCHANGED <<walkerVars, docVars, guiVars, batch, run>>

LlmNext ==
    \/ \E response \in Responses : ParseStart(response)
    \/ ScanLine
    \/ ParseReturn

LlmSpec == Init /\ [][LlmNext]_vars

(***************************************************************************)
(* The flashcard batch of the GUI: _create_selected_flashcards and the     *)
(* thread it starts, on the files of the save directory.                   *)
(*   batch.pc  "unstarted", "test" before _test_anki_connect, "deck"       *)
(*             before _create_deck, "loop" in  for idx, file_path,         *)
(*             "done" after the loop, "error" after _show_error            *)
(*   batch.idx the number of files the loop has taken                      *)
(*   batch.log what became of each of them: the file, the record parsed    *)
(*             from it (None when skipped), whether Anki took the note     *)
(***************************************************************************)
\* the save directory while the batch is on its way: the documents saved
\* and put there, and a file whose bytes stop being UTF-8
BatchSaves ==
    {SaveInput(DocBook, BaseHighlights, BasePayload),
     SaveInput(UntitledBook, BaseHighlights, BasePayload)}
BatchPuts ==
    {HandInput(FlashcardsHeading, <<Q1, Q2Only, Q3>>), [kind |-> "unreadable"], [kind |-> "empty"]}

Spoil(n) ==
    /\ files[n] \notin {Absent, Unreadable}
    /\ files' = [files EXCEPT ![n] = Unreadable]
    /\ origin' = [origin EXCEPT ![n] = [kind |-> "unreadable"]]
    /\ parsed' = NotParsed
    /\ UNCHANGED <<walkerVars, guiVars, toolVars>>

\* _create_selected_flashcards: the files ticked, the thread started
CreateSelectedFlashcards(sel) ==
    /\ batch.pc = "unstarted"
    /\ IsSelection(sel)
    /\ \A k \in 1..Len(sel) : files[sel[k]] # Absent
    /\ batch' = [pc |-> "test", selected |-> sel, idx |-> 0, log |-> <<>>]
    /\ UNCHANGED <<walkerVars, docVars, guiVars, llm, run>>

\* _test_anki_connect answers
BatchTestAnki(ok) ==
    /\ batch.pc = "test"
    /\ batch' = [batch EXCEPT !.pc = IF ok THEN "deck" ELSE "error"]
    /\ UNCHANGED <<walkerVars, docVars, guiVars, llm, run>>

\* _create_deck answers
BatchCreateDeck(ok) ==
    /\ batch.pc = "deck"
    /\ batch' = [batch EXCEPT !.pc = IF ok THEN "loop" ELSE "error"]
    /\ UNCHANGED <<walkerVars, docVars, guiVars, llm, run>>

\* the file as _parse_markdown_file finds it: open raises on a file that is
\* gone as on one it cannot decode
ReadAndParse(n) ==
    IF files[n] = Absent THEN NoneObj ELSE _parse_markdown_file(n, files[n])

\* a turn of the loop that gives the batch up at a file it cannot parse
ProcessFile_Aborts(added) ==
    LET file_path == batch.selected[batch.idx + 1]
        book_data == ReadAndParse(file_path)
    IN  batch' = IF book_data = NoneObj
                 THEN [batch EXCEPT !.pc = "error"]
                 ELSE [batch EXCEPT !.idx = @ + 1,
                                    !.log = Append(@, [file |-> file_path,
                                                       book_data |-> book_data,
                                                       added |-> added])]

\* lines 351-365: parse; skip the file on None, else
\* _create_flashcard_from_book, which Anki takes or not
ProcessFile(added) ==
    LET file_path == batch.selected[batch.idx + 1]
        book_data == ReadAndParse(file_path)
    IN  batch' = [batch EXCEPT !.idx = @ + 1,
                               !.log = Append(@, [file |-> file_path,
                                                  book_data |-> book_data,
                                                  added |-> book_data # NoneObj /\ added])]

\* one turn of  for idx, file_path in enumerate(selected_files, 1)
BatchFile(added) ==
    /\ batch.pc = "loop"
    /\ batch.idx < Len(batch.selected)
    /\ ProcessFile(added)
    /\ UNCHANGED <<walkerVars, docVars, guiVars, llm, run>>

\* the end of the loop: "All flashcards created successfully!"
BatchDone ==
    /\ batch.pc = "loop"
    /\ batch.idx = Len(batch.selected)
    /\ batch' = [batch EXCEPT !.pc = "done"]
    /\ UNCHANGED <<walkerVars, docVars, guiVars, llm, run>>

BatchNext ==
    \/ \E x \in BatchSaves : Save(x.book, x.highlights, x.payload)
    \/ \E d \in BatchPuts : PutFile(d)
    \/ \E n \in FileNames : Spoil(n)
    \/ \E sel \in SeqsUpTo(FileNames, MaxSelected) : CreateSelectedFlashcards(sel)
    \/ \E ok \in BOOLEAN : BatchTestAnki(ok)
    \/ \E ok \in BOOLEAN : BatchCreateDeck(ok)
    \/ \E added \in BOOLEAN : BatchFile(added)
    \/ BatchDone

BatchSpec == Init /\ [][BatchNext]_vars

(***************************************************************************)
(* The command-line pipelines: KindleHighlightsExtractor.run and           *)
(* KindleHighlightsWithSummary.run, a step of the try body at a step.      *)
(*   run.app      "extractor" or "with_summary"                            *)
(*   run.pc       "unstarted"; the step of the try body that comes next:   *)
(*                "setup", "launch", "login", "books", "select",           *)
(*                "extract", "summarize", "save"; "handler" in an except   *)
(*                clause; "cleanup" in the finally clause; "exited"        *)
(*   run.driver   self.driver is set                                       *)
(*   run.exc      the exception raised in the try body, if any             *)
(*   run.path     the way out of the try body                              *)
(*   run.at       the step of the try body it left from                    *)
(*   run.cleanups, run.quits   the calls of the extractor's _cleanup and   *)
(*                of driver.quit so far                                    *)
(*   run.calls, run.requests   the calls of summarize_highlights and of    *)
(*                client.chat.completions.create so far                    *)
(***************************************************************************)
Apps == {"extractor", "with_summary"}
TryBody == {"setup", "launch", "login", "books", "select", "extract", "summarize", "save"}
\* the steps inside KindleHighlightsWithSummary._setup_and_login
InSetupAndLogin == {"setup", "launch", "login"}

\* return, or the end of the try body: on to the finally clause
Leave(r, path) ==
    [r EXCEPT !.pc = "cleanup", !.path = path,
              !.at = IF r.pc = "handler" THEN @ ELSE r.pc]

\* an Exception in the try body: _setup_and_login catches its own and
\* returns False, any other reaches  except Exception  of run
RaiseIn(r) ==
    IF r.app = "with_summary" /\ r.pc \in InSetupAndLogin
    THEN Leave(r, "login_failure")
    ELSE [r EXCEPT !.pc = "handler", !.exc = "Exception", !.path = "exception", !.at = r.pc]

\* the except clauses with the cleanup at the end of the try body only
AfterHandler_NoFinally(r) == [r EXCEPT !.pc = "exited"]

\* the except clause has printed: the finally clause is next
AfterHandler(r) == [r EXCEPT !.pc = "cleanup"]

\* main(): run is called on a new object
RunStart(app) ==
    /\ run.pc = "unstarted"
    /\ run' = [run EXCEPT !.pc = "setup", !.app = app]
    /\ UNCHANGED <<walkerVars, docVars, guiVars, llm, batch>>

\* setup_driver: _initialize_driver sets self.driver or raises, then
\* _configure_driver may raise
SetupDriver(created, ok) ==
    /\ run.pc = "setup"
    /\ ok => created
    /\ run' = IF ok THEN [run EXCEPT !.pc = "launch", !.driver = TRUE]
              ELSE RaiseIn([run EXCEPT !.driver = created])
    /\ UNCHANGED <<walkerVars, docVars, guiVars, llm, batch>>

\* launch_amazon_notebook: driver.get, re-raised when it fails
Launch(ok) ==
    /\ run.pc = "launch"
    /\ run' = IF ok THEN [run EXCEPT !.pc = "login"] ELSE RaiseIn(run)
    /\ UNCHANGED <<walkerVars, docVars, guiVars, llm, batch>>

\* wait_for_login: logged in, or timed out
WaitForLogin(ok) ==
    /\ run.pc = "login"
    /\ run' = IF ok THEN [run EXCEPT !.pc = "books"] ELSE Leave(run, "login_failure")
    /\ UNCHANGED <<walkerVars, docVars, guiVars, llm, batch>>

\* get_available_books
GetBooks(found) ==
    /\ run.pc = "books"
    /\ run' = IF found THEN [run EXCEPT !.pc = "select"] ELSE Leave(run, "no_books")
    /\ UNCHANGED <<walkerVars, docVars, guiVars, llm, batch>>

\* select_book_interactive: a book, or None (cancelled at the prompt)
SelectBook(chosen) ==
    /\ run.pc = "select"
    /\ run' = IF chosen THEN [run EXCEPT !.pc = "extract"] ELSE Leave(run, "no_selection")
    /\ UNCHANGED <<walkerVars, docVars, guiVars, llm, batch>>

\* extract_highlights_from_book: some highlights, or none
ExtractBook(found) ==
    /\ run.pc = "extract"
    /\ run' = IF ~found THEN Leave(run, "no_highlights")
              ELSE [run EXCEPT !.pc = IF run.app = "with_summary" THEN "summarize"
                                      ELSE "save"]
    /\ UNCHANGED <<walkerVars, docVars, guiVars, llm, batch>>

\* KindleHighlightsWithSummary._generate_summary: nothing without a client,
\* else one call of summarize_highlights, which sends its request and
\* returns the payload parsed from the response, or None
GenerateSummary(client, response) ==
    /\ run.pc = "summarize"
    /\ run' = IF ~client THEN [run EXCEPT !.pc = "save"]
              ELSE [run EXCEPT !.pc = "save",
                               !.calls = @ + 1,
                               !.requests = @ + RequestsSent(client, BaseHighlights, response),
                               !.summary_data =
                                   summarize_highlights(client, BaseHighlights, response)
                                   # NoneObj]
    /\ UNCHANGED <<walkerVars, docVars, guiVars, llm, batch>>

\* the file is written and the closing summary shown
SaveAndShow ==
    /\ run.pc = "save"
    /\ run' = Leave(run, "success")
    /\ UNCHANGED <<walkerVars, docVars, guiVars, llm, batch>>

\* some other call of the try body raises an Exception
Fail ==
    /\ run.pc \in TryBody
    /\ run' = RaiseIn(run)
    /\ UNCHANGED <<walkerVars, docVars, guiVars, llm, batch>>

\* Ctrl-C in the try body, or again in the except clause
Interrupt ==
    /\ run.pc \in TryBody \cup {"handler"}
    /\ run' = IF run.pc = "handler" THEN Leave(run, "interrupt")
              ELSE [run EXCEPT !.pc = "handler", !.exc = "KeyboardInterrupt",
                               !.path = "interrupt", !.at = run.pc]
    /\ UNCHANGED <<walkerVars, docVars, guiVars, llm, batch>>

\* except KeyboardInterrupt / except Exception: a message
Handler ==
    /\ run.pc = "handler"
    /\ run' = AfterHandler(run)
    /\ UNCHANGED <<walkerVars, docVars, guiVars, llm, batch>>

\* finally: _cleanup, which quits the driver if there is one; quit may
\* raise, which _cleanup catches
Cleanup(quit_ok) ==
    /\ run.pc = "cleanup"
    /\ run' = [run EXCEPT !.pc = "exited",
                          !.cleanups = @ + 1,
                          !.quits = IF run.driver THEN @ + 1 ELSE @,
                          !.closed = IF ~run.driver THEN "none"
                                     ELSE IF quit_ok THEN "clean" ELSE "warning"]
    /\ UNCHANGED <<walkerVars, docVars, guiVars, llm, batch>>

RunNext ==
    \/ \E app \in Apps : RunStart(app)
    \/ \E created, ok \in BOOLEAN : SetupDriver(created, ok)
    \/ \E ok \in BOOLEAN : Launch(ok)
    \/ \E ok \in BOOLEAN : WaitForLogin(ok)
    \/ \E found \in BOOLEAN : GetBooks(found)
    \/ \E chosen \in BOOLEAN : SelectBook(chosen)
    \/ \E found \in BOOLEAN : ExtractBook(found)
    \/ \E client \in BOOLEAN, response \in ServiceResponses : GenerateSummary(client, response)
    \/ SaveAndShow
    \/ Fail
    \/ Interrupt
    \/ Handler
    \/ \E quit_ok \in BOOLEAN : Cleanup(quit_ok)

\* the interpreter goes on with the main thread, the login poll times out,
\* and the user answers the prompt or interrupts it
RunSpec == Init /\ [][RunNext]_vars /\ WF_vars(RunNext)

(***************************************************************************)
(* The GUI: BookHighlightsApp after the login thread has made the          *)
(* extractor.  Each click on "Summarize Selected" starts a                 *)
(* _summarize_books_thread; all threads call the one self.extractor and    *)
(* its one driver.  A thread stands at                                     *)
(*   "loop"     the top of  for idx, book in enumerate(selected_books, 1)  *)
(*   "fetch"    the top of  while True  of extract_highlights_from_book    *)
(*   "get"      inside self.driver.get(url): the page fetch is in flight   *)
(*   "extract"  after driver.get, before driver.find_elements              *)
(*   "next"     before parse_next_page_state                               *)
(*   "ret"      the return statement of extract_highlights_from_book       *)
(*   "done", "failed"   after driver.quit, at the end or in the except     *)
(***************************************************************************)
\* some thread has called self.extractor.driver.quit()
DriverQuit == \E t \in Clicks : threads[t].pc \in {"done", "failed"}

\* the book of the loop iteration the thread is in
CurrentBook(t) == threads[t].selected[threads[t].idx]

\* _summarize_selected_books: a click with the books sel ticked
SummarizeSelected(t, sel) ==
    /\ is_logged_in
    /\ ~DriverQuit
    /\ threads[t].pc = "unstarted"
    /\ threads' = [threads EXCEPT ![t] =
                      [pc |-> "loop", selected |-> sel, idx |-> 1, url |-> NoUrl,
                       page_count |-> 0, highlights |-> <<>>, calls |-> <<>>]]
    /\ UNCHANGED <<walkerVars, docVars, toolVars>>

\* the for statement: the next book and the start of
\* extract_highlights_from_book, or the end of the loop and driver.quit()
ThreadLoop(t) ==
    /\ threads[t].pc = "loop"
    /\ IF threads[t].idx > Len(threads[t].selected)
       THEN threads' = [threads EXCEPT ![t].pc = "done"]
       ELSE IF ~_validate_extraction_prerequisites(is_logged_in, CurrentBook(t))
            THEN \* return [], and  if not highlights: continue
                 threads' = [threads EXCEPT ![t].idx = @ + 1]
            ELSE threads' = [threads EXCEPT ![t].pc = "fetch",
                                            ![t].url = highlights_url(CurrentBook(t), NoneObj),
                                            ![t].page_count = 0,
                                            ![t].highlights = <<>>]
    /\ UNCHANGED <<walkerVars, docVars, toolVars>>

\* page_count += 1 and the call of driver.get(url); on a driver that has
\* quit it raises at once
ThreadGet(t) ==
    /\ threads[t].pc = "fetch"
    /\ threads[t].page_count < MaxPages
    /\ threads' = [threads EXCEPT ![t].page_count = @ + 1,
                                  ![t].pc = IF DriverQuit THEN "ret" ELSE "get"]
    /\ UNCHANGED <<walkerVars, docVars, toolVars>>

\* driver.get returns: the browser shows page
ThreadLoaded(t, page) ==
    /\ threads[t].pc = "get"
    /\ ~DriverQuit
    /\ Len(threads[t].highlights) + Len(page.elems) <= MaxElems
    /\ driverPage' = page
    /\ threads' = [threads EXCEPT ![t].pc = "extract"]
    /\ UNCHANGED <<is_logged_in, book, url, highlights, page_count, pc, outcome,
                   result, fetched, docVars, toolVars>>

\* driver.get raises: page_highlights is None and the loop breaks
ThreadGetFails(t) ==
    /\ threads[t].pc = "get"
    /\ threads' = [threads EXCEPT ![t].pc = "ret"]
    /\ UNCHANGED <<walkerVars, docVars, toolVars>>

\* find_elements and the list comprehension on the page the browser shows
\* now, and highlights.extend
ThreadExtract(t) ==
    /\ threads[t].pc = "extract"
    /\ IF DriverQuit
       THEN threads' = [threads EXCEPT ![t].pc = "ret"]
       ELSE threads' = [threads EXCEPT
                           ![t].highlights = @ \o PageHighlights(driverPage.elems, CurrentBook(t),
                                                                 threads[t].page_count),
                           ![t].pc = "next"]
    /\ UNCHANGED <<walkerVars, docVars, toolVars>>

\* parse_next_page_state on the page the browser shows now
ThreadNextPage(t) ==
    /\ threads[t].pc = "next"
    /\ LET next_page_state == IF DriverQuit THEN NoneObj
                              ELSE parse_next_page_state(driverPage)
       IN  IF next_page_state # NoneObj
           THEN threads' = [threads EXCEPT
                               ![t].url = highlights_url(CurrentBook(t), next_page_state),
                               ![t].pc = "fetch"]
           ELSE threads' = [threads EXCEPT ![t].pc = "ret"]
    /\ UNCHANGED <<walkerVars, docVars, toolVars>>

\* the return statement raises (the except clause quits the driver), or
\* returns no highlight (continue)
ThreadReturn(t) ==
    /\ threads[t].pc = "ret"
    /\ IF ReturnRaises(threads[t].highlights) THEN TRUE
       ELSE ReturnValue(threads[t].highlights) = <<>>
    /\ IF ReturnRaises(threads[t].highlights)
       THEN threads' = [threads EXCEPT ![t].pc = "failed"]
       ELSE threads' = [threads EXCEPT ![t].pc = "loop", ![t].idx = @ + 1]
    /\ UNCHANGED <<walkerVars, docVars, toolVars>>

\* the return statement returns highlights; summarize_highlights returns sd
\* and save_comprehensive_markdown writes the document
ThreadSummarize(t, client, response) ==
    /\ threads[t].pc = "ret"
    /\ IF ReturnRaises(threads[t].highlights) THEN FALSE
       ELSE ReturnValue(threads[t].highlights) # <<>>
    /\ LET hl == ReturnValue(threads[t].highlights)
           summary_data == summarize_highlights(client, hl, response)
       IN  /\ WriteFile(CurrentBook(t), hl, summary_data)
           /\ threads' = [threads EXCEPT
                  ![t].pc = "loop",
                  ![t].idx = @ + 1,
                  ![t].calls = Append(@, [book |-> CurrentBook(t),
                                          requests |-> RequestsSent(client, hl, response),
                                          returned |-> summary_data # NoneObj])]
    /\ UNCHANGED <<walkerVars, toolVars>>

GuiNext ==
    \/ Login
    \/ \E t \in Clicks, sel \in Selections : SummarizeSelected(t, sel)
    \/ \E t \in Clicks : ThreadLoop(t)
    \/ \E t \in Clicks : ThreadGet(t)
    \/ \E t \in Clicks, page \in GuiPages : ThreadLoaded(t, page)
    \/ \E t \in Clicks : ThreadGetFails(t)
    \/ \E t \in Clicks : ThreadExtract(t)
    \/ \E t \in Clicks : ThreadNextPage(t)
    \/ \E t \in Clicks : ThreadReturn(t)
    \/ \E t \in Clicks, client \in BOOLEAN, response \in ServiceResponses :
           ThreadSummarize(t, client, response)

GuiSpec == Init /\ [][GuiNext]_vars

\* one run of the pipeline: a single click, on books of which more than one
\* can have highlights
RunSelections == {<<BookOne, BookTwo>>, <<BookTwo, BookNoAsin, BookOne>>}

OneClickNext ==
    \/ Login
    \/ \E sel \in RunSelections : SummarizeSelected("first", sel)
    \/ ThreadLoop("first")
    \/ ThreadGet("first")
    \/ \E page \in GuiPages : ThreadLoaded("first", page)
    \/ ThreadGetFails("first")
    \/ ThreadExtract("first")
    \/ ThreadNextPage("first")
    \/ ThreadReturn("first")
    \/ \E client \in BOOLEAN, response \in ServiceResponses :
           ThreadSummarize("first", client, response)

OneClickSpec == Init /\ [][OneClickNext]_vars

(***************************************************************************)
(* Vocabulary of the properties.                                           *)
(***************************************************************************)
\* The page returns a Continuation Token {contentLimitState, token} with a
\* non-empty token: both of its elements are on the page and the token
\* element has a value.
HasContinuationToken(page) ==
    /\ page.stateElem # NoElem
    /\ page.tokenElem # NoElem
    /\ page.tokenElem # <<>>

\* every request of the log loaded its page
AllOk(log) == \A k \in 1..Len(log) : log[k].ok

\* the request for a book's first page: its catalog id, no continuation token
FirstRequest(b) ==
    [base |-> AMAZON_NOTEBOOK_URL, asin |-> b.asin, contentLimitState |-> <<>>, token |-> <<>>]

\* the request that continues after page
NextRequest(b, page) ==
    [base |-> AMAZON_NOTEBOOK_URL, asin |-> b.asin,
     contentLimitState |-> page.stateElem, token |-> page.tokenElem]

\* the caller is not logged in, or the book has no catalog id
PrereqFails(b) == ~is_logged_in \/ b.asin = None \/ b.asin = <<>>

\* what the field extractor makes of the elements of the pages k.. of the log,
\* in page order and then in element order
RECURSIVE ExtractedFrom(_, _, _)
ExtractedFrom(log, b, k) ==
    IF k > Len(log) THEN <<>>
    ELSE (IF log[k].ok THEN PageHighlights(log[k].page.elems, b, k) ELSE <<>>)
         \o ExtractedFrom(log, b, k + 1)

IsHighlight(h) == h # NoneObj

\* the highlights of the fetched pages, those without text dropped
ExpectedResult == SelectSeq(ExtractedFrom(fetched, book, 1), IsHighlight)

\* some element of a fetched page yields no highlight
SomeElementDiscarded == \E i \in 1..Len(ExtractedFrom(fetched, book, 1)) :
                            ExtractedFrom(fetched, book, 1)[i] = NoneObj

Range(seq) == {seq[i] : i \in 1..Len(seq)}

(***************************************************************************)
(* C1  When the pages served to a walk all load, each page but the last    *)
(* returning a non-empty continuation token and the last returning none,   *)
(* the walk has issued exactly one fetch per page, in order (the first for *)
(* the book alone, each later one continuing from the page before it), it  *)
(* stops at that last page and not before, and no further fetch is         *)
(* pending.                                                                *)
(***************************************************************************)
C1_OneFetchPerPage ==
    LET n == Len(fetched)
    IN  (n >= 1 /\ AllOk(fetched)) =>
            /\ page_count = n
            /\ fetched[1].url = FirstRequest(book)
            /\ \A k \in 1..(n - 1) :
                  /\ HasContinuationToken(fetched[k].page)
                  /\ fetched[k + 1].url = NextRequest(book, fetched[k].page)
            /\ pc \in {"fetch", "next", "done"}
            /\ (pc = "fetch") => HasContinuationToken(fetched[n].page)
            /\ (pc = "done") => ~HasContinuationToken(fetched[n].page)
            /\ (pc = "next" /\ ~HasContinuationToken(fetched[n].page)) => ENABLED NextPage

\* a walk over three pages that has ended
C1_Witness ==
    /\ pc = "done"
    /\ outcome = "returned"
    /\ Len(fetched) = 3
    /\ AllOk(fetched)
    /\ HasContinuationToken(fetched[1].page)
    /\ HasContinuationToken(fetched[2].page)
    /\ ~HasContinuationToken(fetched[3].page)

(***************************************************************************)
(* C2  When the fetch of page k fails, the call returns (it does not       *)
(* raise) exactly the highlights with text of pages 1..k-1, and page k is  *)
(* the last page it fetched.                                               *)
(***************************************************************************)
C2_FetchErrorKeepsPartial ==
    (pc = "done" /\ fetched # <<>> /\ ~fetched[Len(fetched)].ok) =>
        /\ \A k \in 1..(Len(fetched) - 1) : fetched[k].ok
        /\ outcome = "returned"
        /\ result = ExpectedResult

(***************************************************************************)
(* C3  The walk stops within a bounded number of steps whatever the pages  *)
(* return: it is never about to fetch again after it has fetched MaxPages  *)
(* pages.                                                                  *)
(***************************************************************************)
C3_WalkStopsWithinBound == (pc = "fetch") => page_count < MaxPages

(***************************************************************************)
(* C4  The result of a walk is the concatenation of the highlights of the  *)
(* pages it fetched, in page order and then element order, with the        *)
(* elements without text removed; every returned highlight has text.       *)
(***************************************************************************)
C4_ResultIsConcatenation ==
    (pc = "done" /\ fetched # <<>>) =>
        /\ outcome = "returned"
        /\ result = ExpectedResult
        /\ \A i \in 1..Len(result) : result[i].text # <<>>

(***************************************************************************)
(* C5  When an element of a fetched page has no recoverable text, or its   *)
(* extraction fails, the call still returns without raising, and returns   *)
(* every other highlight of the fetched pages.                             *)
(***************************************************************************)
C5_BadElementDiscarded ==
    (pc = "done" /\ SomeElementDiscarded) =>
        /\ outcome # "raised"
        /\ Range(ExpectedResult) \subseteq Range(result)

(***************************************************************************)
(* C6  A precondition failure can be told from a walk that ran and found   *)
(* nothing by the returned value: no walk that ran returns the value a     *)
(* call with failed prerequisites returns.                                 *)
(***************************************************************************)
C6_PrereqFailureDistinct ==
    (pc = "done" /\ fetched # <<>> /\ outcome = "returned") =>
        result # PrereqFailureResult

(***************************************************************************)
(* C7  A call made while not logged in, or for a book without catalog id,  *)
(* ends at once without any fetch and leaves is_logged_in and the driver's *)
(* page as they were; a walk is under way only for a book with a catalog   *)
(* id on a logged-in extractor.                                            *)
(***************************************************************************)
C7_RefusedCallTouchesNothing ==
    /\ [](pc \in {"fetch", "next"} => ~PrereqFails(book))
    /\ [][\A b \in Books :
            (ExtractStart(b) /\ PrereqFails(b)) =>
                /\ pc' = "done"
                /\ fetched' = <<>>
                /\ is_logged_in' = is_logged_in
                /\ driverPage' = driverPage]_vars

\* a refused call on an extractor whose driver shows a page of an earlier walk
C7_Witness ==
    /\ pc = "done"
    /\ fetched = <<>>
    /\ outcome = "returned"
    /\ is_logged_in
    /\ book = BookNoAsin
    /\ driverPage # NotebookPage

C9_RequestCarriesPrecedingState ==
    /\ \A k \in 2..Len(fetched) :
          /\ fetched[k].url.base = fetched[1].url.base
          /\ fetched[k].url.asin = fetched[1].url.asin
          /\ fetched[k].url.contentLimitState = fetched[k - 1].page.stateElem
          /\ fetched[k].url.token = fetched[k - 1].page.tokenElem
    /\ (pc = "fetch" /\ fetched # <<>>) =>
          /\ url.base = fetched[1].url.base
          /\ url.asin = fetched[1].url.asin
          /\ url.contentLimitState = fetched[Len(fetched)].page.stateElem
          /\ url.token = fetched[Len(fetched)].page.tokenElem

\* a third request, after two pages with different continuation tokens
C9_Witness ==
    /\ Len(fetched) = 3
    /\ fetched[1].page.tokenElem # fetched[2].page.tokenElem
    /\ fetched[1].page.stateElem # fetched[2].page.stateElem
    /\ fetched[3].url.token = fetched[2].page.tokenElem

(***************************************************************************)
(* C10  The first request of every walk is built from the catalog id of    *)
(* the book of that walk, with empty contentLimitState and token, whatever *)
(* page an earlier walk left in the driver.                                *)
(***************************************************************************)
C10_FirstRequestFresh ==
    /\ (pc = "fetch" /\ page_count = 0) => url = FirstRequest(book)
    /\ fetched # <<>> => fetched[1].url = FirstRequest(book)

\* a walk of the second book has issued its first request while the driver
\* still shows a page with a token that an earlier walk loaded
C10_Witness ==
    /\ pc = "done"
    /\ book = BookTwo
    /\ Len(fetched) = 1
    /\ ~fetched[1].ok
    /\ HasContinuationToken(driverPage)
    /\ fetched[1].url.token = <<>>

\* the threads that are inside driver.get: their page fetch is in flight
InFlight == {t \in Clicks : threads[t].pc = "get"}

(***************************************************************************)
(* C11  No two page fetches are ever in flight at once on the shared       *)
(* extractor, for one book or for two, also when the GUI has started its   *)
(* summarization threads: at most one thread is inside driver.get.         *)
(***************************************************************************)
C11_OneFetchInFlight == Cardinality(InFlight) <= 1

(***************************************************************************)
(* Vocabulary of the properties of the documents.                          *)
(***************************************************************************)
\* a valid SummaryPayload: a summary sentence and at least one key point
ValidPayload(sd) ==
    /\ sd # NoneObj
    /\ {"summary", "key_points"} \subseteq sd.keys
    /\ sd.summary # <<>>
    /\ sd.key_points # <<>>

\* the file the last parser read was written by save_comprehensive_markdown
ParsedASavedFile == parsed.by # "none" /\ origin[parsed.file].kind = "save"

\* ... by the calls this names
SavedFrom == origin[parsed.file]

(***************************************************************************)
(* C12  Round trip of the header and summary fields: whenever              *)
(* parse_markdown_file has read a document that save_comprehensive_markdown*)
(* wrote for a book and a valid payload, it returned the book's title,     *)
(* author and catalog id (None when the book has none), the payload's      *)
(* summary and the payload's key points in order.                          *)
(***************************************************************************)
C12_HeaderSummaryRoundTrip ==
    (ParsedASavedFile /\ parsed.by = "cli" /\ ValidPayload(SavedFrom.payload)) =>
        /\ parsed.value # NoneObj
        /\ parsed.value.book_title = SavedFrom.book.title
        /\ parsed.value.author = SavedFrom.book.author
        /\ parsed.value.asin = SavedFrom.book.asin
        /\ parsed.value.summary = SavedFrom.payload.summary
        /\ parsed.value.key_points = SavedFrom.payload.key_points

(***************************************************************************)
(* C13  Round trip of the flashcards: whenever                             *)
(* AnkiFlashcardCreator.parse_markdown_file has read a document that       *)
(* save_comprehensive_markdown wrote for a payload with flashcards         *)
(* (q1,a1),...,(qN,aN), it returned exactly these N flashcards, in order,  *)
(* question and answer equal to the originals.                             *)
(***************************************************************************)
C13_FlashcardsRoundTrip ==
    (/\ ParsedASavedFile
     /\ parsed.by = "cli"
     /\ ValidPayload(SavedFrom.payload)
     /\ "flashcards" \in SavedFrom.payload.keys) =>
        /\ parsed.value # NoneObj
        /\ parsed.value.flashcards = SavedFrom.payload.flashcards

\* the document holds the lexeme
Has(content, label) == \E i \in 1..Len(content) : content[i] = label

\* the fields of the record a parser returns
RecordFields == {"book_title", "author", "asin", "summary", "key_points", "flashcards"}

(***************************************************************************)
(* C14  The parsers never partially fail: whenever parse_markdown_file or  *)
(* _parse_markdown_file has read a file, it returned nothing if the file   *)
(* is unreadable, and otherwise a record with all of book_title, author,   *)
(* asin, summary, key_points and flashcards, in which every section the    *)
(* document does not have holds its default: "Unknown Book", "Unknown      *)
(* Author", None, "No summary available", the empty list, the empty list.  *)
(***************************************************************************)
C14_ParserCompleteOrNothing ==
    parsed.by # "none" =>
        LET content == files[parsed.file]
            v == parsed.value
        IN  IF content = Unreadable THEN v = NoneObj
            ELSE /\ RecordFields \subseteq DOMAIN v
                 /\ ~Has(content, H1) => v.book_title = UnknownBook
                 /\ ~Has(content, AuthorLabel) => v.author = UnknownAuthor
                 /\ ~Has(content, AsinLabel) => v.asin = None
                 /\ ~Has(content, SummaryLabel) => v.summary = NoSummaryAvailable
                 /\ ~Has(content, KeyPointsLabel) => v.key_points = <<>>
                 /\ (~Has(content, FlashcardsHeading) /\ ~Has(content, FlashcardsHeadingMacRoman))
                        => v.flashcards = <<>>
                 /\ v.book_title # <<>> /\ v.author # <<>> /\ v.summary # <<>>
                 /\ v.asin # <<>>

\* a parser has read a document without title text and without catalog id,
\* and has filled in their defaults beside the author it found
C14_Witness ==
    /\ parsed.by = "cli"
    /\ origin[parsed.file] = SaveInput(UntitledBook, BaseHighlights, BasePayload)
    /\ parsed.value # NoneObj
    /\ parsed.value.book_title = UnknownBook
    /\ parsed.value.asin = None
    /\ parsed.value.author = UntitledBook.author

\* the blocks that have their answer, as flashcards, in document order
RECURSIVE WellPaired(_)
WellPaired(blocks) ==
    IF blocks = <<>> THEN <<>>
    ELSE (IF Head(blocks).answer = None THEN <<>>
          ELSE <<Flashcard(Head(blocks).question, Head(blocks).answer)>>)
         \o WellPaired(Tail(blocks))

\* some question of the blocks has no answer
SomeUnmatched(blocks) == \E i \in 1..Len(blocks) : blocks[i].answer = None

(***************************************************************************)
(* C15  Whenever a parser has read a document whose flashcards block,      *)
(* under the heading the serializer writes, has a Q{n} without A{n}, it    *)
(* raised nothing and returned exactly the well-paired entries in document *)
(* order: no entry for the unmatched question, none merged with a          *)
(* neighbouring pair.                                                      *)
(***************************************************************************)
C15_UnmatchedQuestionDropped ==
    (/\ parsed.by # "none"
     /\ origin[parsed.file].kind = "hand"
     /\ origin[parsed.file].heading = FlashcardsHeading
     /\ SomeUnmatched(origin[parsed.file].blocks)) =>
        /\ parsed.value # NoneObj
        /\ parsed.value.flashcards = WellPaired(origin[parsed.file].blocks)

\* the files that hold what a call of save_comprehensive_markdown wrote
SavedNames == {n \in FileNames : origin[n].kind = "save"}

(***************************************************************************)
(* C16  A payload lacking the summary or the key points is treated as      *)
(* absent: every file save_comprehensive_markdown wrote for such a payload *)
(* is the complete document it writes for no payload at all, the header    *)
(* block and every highlight with no summary section, never a partially    *)
(* written one.                                                            *)
(***************************************************************************)
C16_LackingPayloadTreatedAsAbsent ==
    \A n \in SavedNames :
        (origin[n].payload # NoneObj /\ ~ValidPayload(origin[n].payload)) =>
            files[n] = HeaderBlock(origin[n].book) \o HighlightsBlock(origin[n].highlights)

\* the names whose file or whose writer a step changes
Touched == {n \in FileNames : files'[n] # files[n] \/ origin'[n] # origin[n]}

\* the file of name n has the name derived from the title of the book of
\* the save it comes from (from), and content is the document of that save
HoldsDocumentOf(n, content, from) ==
    /\ n = safe_title(from.book.title) \o <<CompleteSuffix>>
    /\ content = save_comprehensive_markdown(from.book, from.highlights, from.payload).content

(***************************************************************************)
(* C17  Serializing writes exactly one file, named <slug of the            *)
(* title>-complete.md: a step changes at most one file of the save         *)
(* directory and leaves every other file as it was; the file a             *)
(* serialization wrote carries the name derived from its book's title and  *)
(* holds exactly the document of that serialization, nothing of what the   *)
(* file held before.  (So each saved file holds the document of the latest *)
(* serialization under its name.)                                          *)
(***************************************************************************)
C17_OneFileReplaced ==
    [][/\ Cardinality(Touched) <= 1
       /\ \A n \in FileNames : n \notin Touched => files'[n] = files[n]
       /\ \A n \in Touched : files'[n] # Absent
       /\ \A n \in Touched : origin'[n].kind = "save" =>
                                  HoldsDocumentOf(n, files'[n], origin'[n])]_vars

\* the file named after "a b" holds the document of another book with the
\* same slug, beside two other files of the directory
C17_Witness ==
    /\ origin[filename(DocBook.title)].kind = "save"
    /\ origin[filename(DocBook.title)].book = SameSlugBook
    /\ files[filename(DocBook.title)] =
           save_comprehensive_markdown(SameSlugBook, BaseHighlights, BasePayload).content
    /\ files[filename(UntitledBook.title)] # Absent
    /\ files[ForeignName] # Absent

Present(v) == v # None /\ v # <<>>

\* the three fields of the metadata line, in the order of the line
MetadataFields(h) ==
    <<[label |-> "Location: ", value |-> h.location],
      [label |-> "Page: ", value |-> h.page],
      [label |-> "Color: ", value |-> h.color]>>

IsPresentField(f) == Present(f.value)

\* label and value of each field, a comma and a space between two fields
RECURSIVE CommaJoined(_)
CommaJoined(fields) ==
    IF fields = <<>> THEN <<>>
    ELSE <<Head(fields).label>> \o Head(fields).value
         \o (IF Len(fields) > 1 THEN <<",", " ">> ELSE <<>>)
         \o CommaJoined(Tail(fields))

\* the entry of highlight number i as the claim describes it
ExpectedEntry(h, i) ==
    LET present == SelectSeq(MetadataFields(h), IsPresentField)
    IN  <<HighlightHeading>> \o str(i) \o <<NL, NL>> \o h.text \o <<NL, NL>>
        \o (IF present = <<>> THEN <<>>
            ELSE <<"*">> \o CommaJoined(present) \o <<"*", NL, NL>>)
        \o (IF Present(h.note) THEN <<NoteLabel>> \o h.note \o <<NL, NL>> ELSE <<>>)
        \o <<Rule, NL, NL>>

RECURSIVE ExpectedEntries(_, _)
ExpectedEntries(hl, i) ==
    IF i > Len(hl) THEN <<>> ELSE ExpectedEntry(hl[i], i) \o ExpectedEntries(hl, i + 1)

\* the last k lexemes and characters of a document
Suffix(content, k) == SubSeq(content, Len(content) - k + 1, Len(content))

(***************************************************************************)
(* C19  Every document that save_comprehensive_markdown wrote to its end   *)
(* ends with one entry per highlight, in order, in which the metadata line *)
(* lists exactly the present fields among location, page and color, in     *)
(* that order and joined by ", ", and is left out when none is present,    *)
(* and the note line is written if and only if the note is present.  A     *)
(* field is present when it has a value other than the empty string.       *)
(***************************************************************************)
C19_MetadataLineListsPresentFields ==
    \A n \in SavedNames :
        ~SummaryBlock(origin[n].payload).raised =>
            LET entries == ExpectedEntries(origin[n].highlights, 1)
            IN  /\ Len(files[n]) >= Len(entries)
                /\ Suffix(files[n], Len(entries)) = entries

\* a document with one highlight that has a page and a color and neither
\* location nor note: its metadata line starts with the page
C19_Witness ==
    LET n == filename(DocBook.title)
    IN  /\ origin[n] = SaveInput(DocBook,
                                 <<DocHighlight(None, <<"1", "2">>, <<"b", "l", "u", "e">>, None)>>,
                                 NoneObj)
        /\ \E i \in 2..Len(files[n]) : files[n][i - 1] = "*" /\ files[n][i] = "Page: "
        /\ \A i \in 1..Len(files[n]) : files[n][i] # NoteLabel

\* the highlight elements of the pages k.. of the log that loaded, in page
\* order and then in element order
RECURSIVE FetchedElements(_, _)
FetchedElements(log, k) ==
    IF k > Len(log) THEN <<>>
    ELSE (IF log[k].ok THEN log[k].page.elems ELSE <<>>) \o FetchedElements(log, k + 1)

\* the element has none of the nodes of color, location, page and note
MissingAllOptional(el) ==
    /\ el.marker = NoElem
    /\ el.location = NoElem
    /\ el.header = NoElem
    /\ el.note = NoElem

(***************************************************************************)
(* C20  For every highlight element of a fetched page in which the nodes   *)
(* of color, location, page and note are all missing, the field extractor  *)
(* raised nothing: it made a highlight with the element's text and with    *)
(* color, location, page and note all None (or, when the element has no    *)
(* text to recover, discarded the element).                                *)
(***************************************************************************)
C20_MissingOptionalFieldsAreNone ==
    LET els == FetchedElements(fetched, 1)
    IN  /\ Len(highlights) = Len(els)
        /\ \A k \in 1..Len(els) :
              MissingAllOptional(els[k]) =>
                  LET text == _extract_highlight_text(els[k])
                  IN  IF text = Raised \/ text = <<>> THEN highlights[k] = NoneObj
                      ELSE /\ highlights[k] # NoneObj
                           /\ highlights[k].text = text
                           /\ highlights[k].color = None
                           /\ highlights[k].location = None
                           /\ highlights[k].page = None
                           /\ highlights[k].note = None

\* a row with text and no optional node was on a fetched page and became a
\* highlight
C20_Witness ==
    /\ fetched # <<>>
    /\ fetched[1].ok
    /\ fetched[1].page.elems # <<>>
    /\ fetched[1].page.elems[1] = BareElement
    /\ highlights # <<>>
    /\ highlights[1] # NoneObj
    /\ highlights[1].text = <<"n">>
    /\ highlights[1].note = None

\* the colors of the data model
ClosedColorSet ==
    {<<"p", "i", "n", "k">>, <<"b", "l", "u", "e">>, <<"y", "e", "l", "l", "o", "w">>,
     <<"o", "r", "a", "n", "g", "e">>, None}

(***************************************************************************)
(* C21  The color of every extracted highlight is one of pink, blue,       *)
(* yellow, orange or None, whatever the class attribute of the marker      *)
(* element holds.                                                          *)
(***************************************************************************)
C21_ColorInClosedSet ==
    \A k \in 1..Len(highlights) :
        highlights[k] # NoneObj => highlights[k].color \in ClosedColorSet

(***************************************************************************)
(* Vocabulary of the claims about the summarizer: what a response holds,   *)
(* read off its lines and not off the locals of the scanner.               *)
(***************************************************************************)
Last(S) == CHOOSE k \in S : \A m \in S : m <= k

\* the line has a character that is neither a blank nor one of the marks
HasTextBeside(line, marks) == \E k \in 1..Len(line) : line[k] \notin (marks \cup {" "})

\* the section line j of the response stands in
SectionAt(lines, j) ==
    LET labels == {k \in 1..(j - 1) : \/ startswith(strip(lines[k]), KeyPointsTag)
                                      \/ startswith(strip(lines[k]), FlashcardsTag)}
    IN  IF labels = {} THEN "none"
        ELSE IF startswith(strip(lines[Last(labels)]), KeyPointsTag) THEN "key_points"
        ELSE "flashcards"

\* the last summary line of the response has text
YieldsSummary(lines) ==
    LET S == {k \in 1..Len(lines) : startswith(strip(lines[k]), SummaryTag)}
    IN  S # {} /\ HasTextBeside(lines[Last(S)], {SummaryTag})

\* some marked line of the key points section has text
YieldsKeyPoint(lines) ==
    \E j \in 1..Len(lines) :
        /\ SectionAt(lines, j) = "key_points"
        /\ startswith(strip(lines[j]), "-")
        /\ HasTextBeside(lines[j], {"-"})

\* C24: _parse_summary_response returns a payload if and only if the
\* response yields a non-empty summary and at least one key point, and None
\* otherwise; a payload it returns has a non-empty summary and a non-empty
\* list of non-empty key points, whatever its flashcards.
C24_PayloadIffSummaryAndKeyPoint ==
    llm.pc = "done" =>
        /\ llm.value # NoneObj <=> (YieldsSummary(llm.lines) /\ YieldsKeyPoint(llm.lines))
        /\ llm.value # NoneObj =>
               /\ llm.value.summary # <<>>
               /\ llm.value.key_points # <<>>
               /\ \A k \in 1..Len(llm.value.key_points) : llm.value.key_points[k] # <<>>

\* a payload without flashcards is returned
C24_Witness ==
    /\ llm.pc = "done"
    /\ llm.value # NoneObj
    /\ llm.value.flashcards = <<>>
    /\ Len(llm.lines) > 3

\* the text the scanner takes for the question, the answer of a line
QuestionOf(line) == strip(replace(strip(line), QTag))
AnswerOf(line) == strip(replace(strip(line), ATag))

\* line j is a line of the flashcards section that starts with the label
InFlashcards(lines, j, label) ==
    SectionAt(lines, j) = "flashcards" /\ startswith(strip(lines[j]), label)

\* the question lines of the flashcards section before line j
QuestionsBefore(lines, j) == {q \in 1..(j - 1) : InFlashcards(lines, q, QTag)}

\* a question is pending when line j arrives: the last question line
\* before j has text and no answer line came after it
PendingAt(lines, j) ==
    LET Q == QuestionsBefore(lines, j)
    IN  /\ Q # {}
        /\ QuestionOf(lines[Last(Q)]) # <<>>
        /\ \A a \in (Last(Q) + 1)..(j - 1) : ~InFlashcards(lines, a, ATag)

\* C27: in every turn of the loop of _parse_summary_response one flashcard
\* is appended exactly when the line is an 'A:' line of the flashcards
\* section and a question is pending; it pairs the answer with the most
\* recent 'Q:' line, and the pending question is cleared; in every other
\* turn the flashcards stay as they are.
C27_FlashcardOnAnswerToPending ==
    [][(llm.pc = "scan" /\ llm'.pc = "scan" /\ llm'.i = llm.i + 1) =>
           IF InFlashcards(llm.lines, llm'.i, ATag) /\ PendingAt(llm.lines, llm'.i)
           THEN /\ llm'.st.flashcards =
                       Append(llm.st.flashcards,
                              Flashcard(QuestionOf(llm.lines[Last(QuestionsBefore(llm.lines,
                                                                                  llm'.i))]),
                                        AnswerOf(llm.lines[llm'.i])))
                /\ llm'.st.current_question = None
           ELSE llm'.st.flashcards = llm.st.flashcards]_vars

\* a question, another question and an answer were scanned: one flashcard,
\* of the second question, and nothing pending
C27_Witness ==
    /\ llm.pc = "scan"
    /\ llm.i >= 3
    /\ llm.lines[llm.i - 2] = QLine1
    /\ llm.lines[llm.i - 1] = QLine2
    /\ llm.lines[llm.i] = ALine1
    /\ llm.st.flashcards = <<Flashcard(<<"q", "2">>, <<"a", "1">>)>>
    /\ llm.st.current_question = None

\* the lines of the response that start with the label, and each of them
\* with nothing but the leading label and the blanks around it taken away
LinesWith(lines, label) == {j \in 1..Len(lines) : startswith(strip(lines[j]), label)}
LeadingRemoved(line) == strip(Tail(strip(line)))
Preserved(lines, label) == {LeadingRemoved(lines[j]) : j \in LinesWith(lines, label)}

\* C28: what _parse_summary_response has extracted is text of the response
\* unchanged: every key point is a '-' line without its leading marker and
\* the blanks around it, and the summary, every question and every answer is
\* a 'SUMMARY:', 'Q:', 'A:' line without its leading label and the blanks
\* around it.
C28_ContentPreserved ==
    /\ llm.st.summary \in Preserved(llm.lines, SummaryTag) \cup {<<>>}
    /\ \A k \in 1..Len(llm.st.key_points) :
           llm.st.key_points[k] \in Preserved(llm.lines, "-")
    /\ llm.st.current_question \in Preserved(llm.lines, QTag) \cup {None}
    /\ \A k \in 1..Len(llm.st.flashcards) :
           /\ llm.st.flashcards[k].question \in Preserved(llm.lines, QTag)
           /\ llm.st.flashcards[k].answer \in Preserved(llm.lines, ATag)

\* the file cannot be read: it is gone, or its bytes are not UTF-8
CannotBeRead(n) == files[n] \in {Absent, Unreadable}

\* C23: once the flashcard batch is in its loop it takes the selected files
\* one after the other, in the order of the selection, and ends only after
\* the last; a file that cannot be read or parsed is skipped (no record, no
\* note), any other file is parsed and handed to Anki, and neither stops
\* the batch.
C23_UnreadableFileSkippedOnly ==
    [][batch.pc = "loop" /\ batch' # batch =>
           IF batch.idx = Len(batch.selected)
           THEN batch' = [batch EXCEPT !.pc = "done"]
           ELSE /\ batch'.pc = "loop"
                /\ batch'.selected = batch.selected
                /\ batch'.idx = batch.idx + 1
                /\ Len(batch'.log) = batch'.idx
                /\ \A k \in 1..batch.idx : batch'.log[k] = batch.log[k]
                /\ batch'.log[batch'.idx].file = batch.selected[batch'.idx]
                /\ batch'.log[batch'.idx].book_data = NoneObj
                       <=> CannotBeRead(batch.selected[batch'.idx])
                /\ batch'.log[batch'.idx].book_data = NoneObj
                       => ~batch'.log[batch'.idx].added]_vars

\* the batch has ended; its first file was skipped and a later one parsed
C23_Witness ==
    /\ batch.pc = "done"
    /\ Len(batch.selected) >= 2
    /\ batch.log[1].book_data = NoneObj
    /\ batch.log[Len(batch.selected)].book_data # NoneObj
    /\ batch.log[Len(batch.selected)].added

\* the six fields of a record, None for no record
FieldsOf(v) == IF v = NoneObj THEN NoneObj ELSE [f \in RecordFields |-> v[f]]

\* the parser that made  parsed , applied to content
ParsedBy(by, n, content) ==
    IF by = "cli" THEN parse_markdown_file(n, content) ELSE _parse_markdown_file(n, content)

\* two lists of highlights that differ in nothing but texts and notes
SameButTextAndNotes(hl1, hl2) ==
    /\ Len(hl1) = Len(hl2)
    /\ \A k \in 1..Len(hl1) :
           /\ hl1[k].id = hl2[k].id
           /\ hl1[k].location = hl2[k].location
           /\ hl1[k].page = hl2[k].page
           /\ hl1[k].color = hl2[k].color

\* C25: whenever a parser has read a document that
\* save_comprehensive_markdown wrote, the title, author, asin, summary,
\* key_points and flashcards it returned are those it returns for the
\* document of the same book and payload with any other texts and notes in
\* the highlights.
C25_ParsedRecordIgnoresHighlightContent ==
    ParsedASavedFile =>
        \A hl \in HighlightLists :
            SameButTextAndNotes(SavedFrom.highlights, hl) =>
                FieldsOf(parsed.value)
                    = FieldsOf(ParsedBy(parsed.by, parsed.file,
                                        save_comprehensive_markdown(SavedFrom.book, hl,
                                                                    SavedFrom.payload).content))

\* C26: on every file of the save directory parse_markdown_file and
\* _parse_markdown_file return the same title, author, asin, summary,
\* key_points and flashcards, or both nothing.
C26_ParsersEquivalent ==
    \A n \in FileNames :
        files[n] # Absent =>
            FieldsOf(parse_markdown_file(n, files[n]))
                = FieldsOf(_parse_markdown_file(n, files[n]))

C22_OneGenerationPerBook ==
    \A t \in Clicks :
        /\ \A i, j \in 1..Len(threads[t].calls) :
               i # j => threads[t].calls[i].book # threads[t].calls[j].book
        /\ \A i \in 1..Len(threads[t].calls) : threads[t].calls[i].requests <= 1

\* a run over two ticked books has ended; both were summarized, each once;
\* the first request gave nothing and was not sent again
C22_Witness ==
    /\ threads["first"].pc = "done"
    /\ Len(threads["first"].selected) = 2
    /\ Len(threads["first"].calls) = 2
    /\ threads["first"].calls[1].requests = 1
    /\ ~threads["first"].calls[1].returned
    /\ threads["first"].calls[2].returned

\* C30: at every moment of a walk any two highlights extracted so far have
\* different ids: each id holds the catalog id of the book of the walk and
\* the hash of the highlight's text, and the pair of in-page index and page
\* number differs between any two of them, whatever their texts.
C30_IdsDistinct ==
    \A i, j \in 1..Len(highlights) :
        (highlights[i] # NoneObj /\ highlights[j] # NoneObj) =>
            /\ highlights[i].id.asin = book.asin
            /\ highlights[i].id.hash = hash(highlights[i].text)
            /\ i # j =>
                   /\ <<highlights[i].id.index, highlights[i].id.page_count>>
                          # <<highlights[j].id.index, highlights[j].id.page_count>>
                   /\ highlights[i].id # highlights[j].id

\* two highlights of the same text, one on each of two pages
C30_Witness ==
    /\ Len(highlights) = 2
    /\ highlights[1] # NoneObj
    /\ highlights[2] # NoneObj
    /\ highlights[1].text = highlights[2].text
    /\ highlights[1].id.index = highlights[2].id.index
    /\ highlights[1].id.page_count # highlights[2].id.page_count

====
